---- MODULE Spec2Model ----
(***************************************************************************)
(* A model of the rendering core of rusty-path-of-building: the layered    *)
(* draw-primitive accumulator (layers.rs), the tessellator                 *)
(* (renderer/tessellator.rs), the font atlas, glyph cache and layout cache *)
(* (fonts.rs, fonts/atlas.rs, fonts/rasterizer.rs) and the per-frame       *)
(* driver (app.rs, pob.rs).                                                *)
(*                                                                         *)
(* Option<T> is modelled as a sequence: <<>> is None and <<x>> is Some(x). *)
(* A point is <<x, y>>; a rect (euclid Box2D) is [min, max].               *)
(***************************************************************************)
EXTENDS Integers, Sequences, FiniteSets, TLC

VARIABLES
    \* ---- Layers (layers.rs:23-28)
    layers,              \* BTreeMap<(i32, i32), Vec<ClippedPrimitive>>
    current_layer,       \* (i32, i32)
    viewport,            \* LogicalRect<f32>
    current_draw_color,  \* Srgba
    \* ---- history of the Layers object (not program state)
    added,               \* <<[key, prim]>>: push calls since the last reset/consume
    stream,              \* the iterator returned by the last consume_layers, as a sequence
    streamLog,           \* `added` as it was when that consume_layers ran
    lop,                 \* the last call: "reset", "consume_layers", "set_draw_sublayer",
                         \* or "other"
    \* ---- Tessellator (renderer/tessellator.rs:16-36)
    last_clipped_meshes_size,  \* Tessellator::last_clipped_meshes_size
    clipped_meshes,      \* the Vec<ClippedMesh> being built by convert_clipped_primitives
    tessPc,              \* "idle" | "loop": position in convert_clipped_primitives
    \* ---- history of the running conversion (not program state)
    tessLog,             \* <<[prim, contributed, batch]>>: one entry per primitive processed
    \* ---- FontAtlas (fonts/atlas.rs:16-28); image is kept as its width and height
    atlas,               \* [max_texture_side, width, height, cursor, current_row_height,
                         \*  dirty, overflowed]
    \* ---- history of the atlas (not program state)
    regions,             \* regions returned by allocate since new()/clear(), in call order
    reqArea,             \* total area requested from allocate since new()/clear()
    atlasDelta,          \* what the last take_delta returned (None before the first call)
    \* ---- Fonts (fonts.rs:52-59); the atlas field is the variable above
    glyph_rasterizer,    \* [swash_keys, style_ids, next_style_id, cached_glyphs]
    layout_cache,        \* [current_generation, cache]
    \* ---- history of the Fonts object (not program state)
    age,                 \* per query: begin_frame calls since it was last laid out
                         \* (capped at 2), or -1 if it never was
    streak,              \* per query: laid out in every frame since its first layout
    lastRet,             \* per query: id of the Arc<Layout> returned for it in this
                         \* frame or the one before
    lastCall,            \* the last layout call since begin_frame, or None
    fop,                 \* the last operation on Fonts
    beginSnap,           \* how full the atlas was on entry to the last begin_frame
    \* ---- App and PoBMode (app.rs:39-46, pob.rs:20-24), TextureManager (textures.rs:80-84)
    previous_layers_hash,  \* PoBMode::previous_layers_hash
    force_render,        \* App::force_render
    textures_delta,      \* TextureManager::delta: [update, free]
    appPc,               \* "idle" | "mode_frame": inside the Lua frame handler or not
    \* ---- history of the frames (not program state)
    issued,              \* draw calls of the running frame: <<[key, clip_rect, call]>>
    atlasModified,       \* the atlas was cleared or allocated from during the running frame
    frameOut,            \* what the last App::frame computed and returned, or None
    \* ---- App and GraphicsContext (app.rs:39-46, gfx.rs:14-26), WindowState (window.rs:14-20)
    gfx_context,         \* App::gfx_context: None, or Some([is_surface_configured,
                         \* blit_texture, textures]); blit_texture is None while nothing
                         \* was drawn into it, else Some of the frame drawn into it last;
                         \* textures are Renderer::textures (renderer.rs:44)
    needs_reconfigure,   \* App::needs_reconfigure
    window,              \* [is_focused, is_hovered, size]
    \* ---- history of the redraws (not program state)
    presented,           \* what the last rendered redraw put on the surface, or None
    \* ---- TextureManager (textures.rs:79-84; its delta is textures_delta)
    next_id,             \* TextureManager::next_id
    meta_data,           \* TextureManager::meta_data: id -> [retain_count, size]
    \* ---- TextureHandles and worker jobs (textures.rs:18-21, 223-232)
    handles,             \* number of live TextureHandle objects per texture id
    loading,             \* ids whose image a worker job is loading
    \* ---- history of the TextureManager (not program state)
    freed,               \* ids pushed to delta.free so far, in order
    top,                 \* the last call on the TextureManager and what it met
    \* ---- SubscriptManager (subscript.rs:25-29), its Subscripts and their threads
    current_id,          \* SubscriptManager::current_id
    scripts,             \* SubscriptManager::scripts: <<[id, thread, calls]>>; thread is
                         \* "running", "blocked" (in rx_return.recv()) or "finished",
                         \* calls are the SubscriptCall messages in the channel
    \* ---- history of the subscripts (not program state)
    tally,               \* per subscript id: calls sent, Blocking calls sent, calls that
                         \* OnSubCall was called for, replies sent, and calls left in
                         \* the channel when the subscript was removed
    results,             \* ids in the Vec<SubscriptResult> of the last process()
    \* ---- WorkerPool (worker_pool.rs:8-11), its channel and its worker threads
    sender,              \* WorkerPool::sender is Some
    job_queue,           \* the jobs in the channel, while its Receiver lives
    queue_lock,          \* the worker that holds the Mutex of the Receiver, or 0
    workers,             \* per worker: [state, job]; state is "waiting" (for the lock),
                         \* "recv" (in recv, holding the lock), "job", "exited" or
                         \* "panicked"
    pool_pc,             \* the owner of the pool: "alive", "joining" (in drop),
                         \* "dropped", or "panicked" (in execute or in drop)
    joined,              \* workers that drop has joined
    \* ---- history of the WorkerPool (not program state)
    submitted,           \* jobs passed to execute; jobs are numbered from 1
    job_runs,            \* per job: <<worker, outcome>> of each run of it
    \* ---- a call of http_get_with_backoff (installer.rs:327-422)
    http                 \* [pc, attempt, backoff_secs, result]: pc is "idle", "loop" or
                         \* "returned"; and, not program state: status_as_error, whether
                         \* the agent turns a status of 400 and above into an Err; last,
                         \* what the server answered last; slept, the sleeps so far

layerVars == <<layers, current_layer, viewport, current_draw_color,
               added, stream, streamLog, lop>>

tessVars == <<last_clipped_meshes_size, clipped_meshes, tessPc, tessLog>>

atlasVars == <<atlas, regions, reqArea, atlasDelta>>

fontVars == <<glyph_rasterizer, layout_cache, age, streak, lastRet, lastCall, fop,
              beginSnap>>

gfxVars == <<gfx_context, needs_reconfigure, window, presented>>

appVars == <<previous_layers_hash, force_render, textures_delta, appPc, issued,
             atlasModified, frameOut, gfxVars>>

texVars == <<next_id, meta_data, handles, loading, freed, top>>

subVars == <<current_id, scripts, tally, results>>

poolVars == <<sender, job_queue, queue_lock, workers, pool_pc, joined, submitted, job_runs>>

restVars == <<subVars, poolVars, http>>

extVars == <<texVars, restVars>>

vars == <<layerVars, tessVars, atlasVars, fontVars, appVars, extVars>>

----------------------------------------------------------------------------
(* Bounds and input sets *)

\* most primitives held by a Layers object at one time
MaxPrims == 2

None == <<>>
Some(x) == <<x>>

Pt(x, y) == <<x, y>>
MkRect(x0, y0, x1, y1) == [min |-> Pt(x0, y0), max |-> Pt(x1, y1)]
ZeroRect == MkRect(0, 0, 0, 0)

TRANSPARENT == <<0, 0, 0, 0>>
WHITE == <<255, 255, 255, 255>>

\* values handed to set_draw_layer / set_draw_sublayer
LayerVals == {-1, 0}
SublayerVals == {0, 1}
\* values handed to set_draw_color
ColorVals == {WHITE}
\* the window rect and a sub-viewport, handed to set_viewport
WindowRect == MkRect(0, 0, 8, 6)
SubViewport == MkRect(2, 1, 6, 5)
ViewportVals == {WindowRect, SubViewport}
\* geometry, texture and layout arguments of the draw calls
RectVals == {MkRect(1, 1, 3, 2)}
TextPosVals == {Pt(1, 2)}
DrawTexVals == {Some(5)}
DefaultUv == MkRect(0, 0, 1, 1)
\* a Layout as Fonts::layout returns it: one row with one glyph
SampleLayout ==
    [id |-> 1, job_hash |-> 7, num_of_vertices |-> 4, num_of_indices |-> 6,
     rows |-> <<[glyphs |-> <<[rect |-> MkRect(0, 0, 2, 3), uv |-> MkRect(2, 0, 4, 3),
                               color |-> WHITE]>>]>>]
LayoutVals == {SampleLayout}

----------------------------------------------------------------------------
(* Geometry helpers *)

\* euclid Box2D::translate
TranslateRect(r, v) ==
    [min |-> Pt(r.min[1] + v[1], r.min[2] + v[2]),
     max |-> Pt(r.max[1] + v[1], r.max[2] + v[2])]

\* Quad::translate: a quad is <<p0, p1, p2, p3>>
TranslateQuad(q, v) == [i \in 1..4 |-> Pt(q[i][1] + v[1], q[i][2] + v[2])]

QuadOfRect(r) == <<r.min, Pt(r.max[1], r.min[2]), r.max, Pt(r.min[1], r.max[2])>>

----------------------------------------------------------------------------
(* Layers *)

EmptyLayers == [k \in {} |-> <<>>]

LayersDefault ==
    /\ layers = EmptyLayers
    /\ current_layer = <<0, 0>>
    /\ viewport = ZeroRect
    /\ current_draw_color = TRANSPARENT

LayersInit ==
    /\ LayersDefault
    /\ added = <<>>
    /\ stream = <<>>
    /\ streamLog = <<>>
    /\ lop = "other"

\* Ord of (i32, i32): lexicographic, signed
KeyLessSublayerFirst(a, b) == a[2] < b[2] \/ (a[2] = b[2] /\ a[1] < b[1])
KeyLess(a, b) == a[1] < b[1] \/ (a[1] = b[1] /\ a[2] < b[2])

FirstKey(S) == CHOOSE k \in S : \A o \in S \ {k} : KeyLess(k, o)

\* BTreeMap::into_values().flatten(): values in ascending key order, concatenated
RECURSIVE IntoValuesFlatten(_)
IntoValuesFlatten(m) ==
    IF DOMAIN m = {} THEN <<>>
    ELSE LET k == FirstKey(DOMAIN m)
         IN  m[k] \o IntoValuesFlatten([x \in DOMAIN m \ {k} |-> m[x]])

\* Layers::push: self.layers.entry(self.current_layer).or_default().push(p)
Pushed(m, key, p) ==
    [k \in DOMAIN m \cup {key} |->
        IF k \in DOMAIN m
        THEN IF k = key THEN Append(m[k], p) ELSE m[k]
        ELSE <<p>>]

Push(p, geom, is_absolute_position) ==
    /\ layers' = Pushed(layers, current_layer, p)
    /\ added' = Append(added, [key |-> current_layer, prim |-> p, viewport |-> viewport,
                               geom |-> geom, absolute |-> is_absolute_position])
    /\ stream' = <<>>
    /\ streamLog' = <<>>

Reset ==
    /\ current_layer' = <<0, 0>>
    /\ layers' = EmptyLayers
    /\ current_draw_color' = TRANSPARENT
    /\ added' = <<>>
    /\ stream' = <<>>
    /\ streamLog' = <<>>
    /\ lop' = "reset"
    /\ UNCHANGED viewport

ConsumeLayersAndReset ==
    /\ stream' = IntoValuesFlatten(layers)
    /\ layers' = EmptyLayers
    /\ streamLog' = added
    /\ added' = <<>>
    /\ lop' = "consume_layers"
    /\ current_layer' = <<0, 0>>
    /\ current_draw_color' = TRANSPARENT
    /\ viewport' = ZeroRect
ConsumeLayers ==
    /\ stream' = IntoValuesFlatten(layers)
    /\ layers' = EmptyLayers
    /\ streamLog' = added
    /\ added' = <<>>
    /\ lop' = "consume_layers"
    /\ UNCHANGED <<current_layer, viewport, current_draw_color>>

SetViewport ==
    \E v \in ViewportVals :
        /\ viewport' = v
        /\ lop' = "other"
        /\ stream' = <<>>
        /\ streamLog' = <<>>
        /\ UNCHANGED <<layers, current_layer, current_draw_color, added>>

SetDrawLayer ==
    \E l \in LayerVals, s \in SublayerVals :
        /\ current_layer' = <<l, s>>
        /\ lop' = "other"
        /\ stream' = <<>>
        /\ streamLog' = <<>>
        /\ UNCHANGED <<layers, viewport, current_draw_color, added>>

SetDrawSublayerFromZero ==
    \E s \in SublayerVals :
        /\ current_layer' = <<0, s>>
        /\ lop' = "set_draw_sublayer"
        /\ stream' = <<>>
        /\ streamLog' = <<>>
        /\ UNCHANGED <<layers, viewport, current_draw_color, added>>
SetDrawSublayer ==
    \E s \in SublayerVals :
        /\ current_layer' = <<current_layer[1], s>>
        /\ lop' = "set_draw_sublayer"
        /\ stream' = <<>>
        /\ streamLog' = <<>>
        /\ UNCHANGED <<layers, viewport, current_draw_color, added>>

SetDrawColor ==
    \E c \in ColorVals :
        /\ current_draw_color' = c
        /\ lop' = "other"
        /\ stream' = <<>>
        /\ streamLog' = <<>>
        /\ UNCHANGED <<layers, current_layer, viewport, added>>

\* Layers::draw_rect + add_rect
DrawRectCall(texture_id, rect) ==
    LET texture == IF texture_id = None THEN None
                   ELSE Some([texture_id |-> texture_id[1], uv |-> DefaultUv, layer_idx |-> 0])
        primitive == [kind |-> "Rect",
                      rect |-> TranslateRect(rect, viewport.min),
                      color |-> current_draw_color,
                      texture |-> texture]
    IN  /\ Len(added) < MaxPrims
        /\ Push([clip_rect |-> viewport, primitive |-> primitive], rect, FALSE)
        /\ lop' = "other"
        /\ UNCHANGED <<current_layer, viewport, current_draw_color>>
DrawRect ==
    \E texture_id \in DrawTexVals, rect \in RectVals : DrawRectCall(texture_id, rect)

\* Layers::draw_quad + add_quad
DrawQuad ==
    \E rect \in RectVals :
        LET primitive == [kind |-> "Quad",
                          quad |-> TranslateQuad(QuadOfRect(rect), viewport.min),
                          color |-> current_draw_color,
                          texture |-> None]
        IN  /\ Len(added) < MaxPrims
            /\ Push([clip_rect |-> viewport, primitive |-> primitive], QuadOfRect(rect),
                    FALSE)
            /\ lop' = "other"
            /\ UNCHANGED <<current_layer, viewport, current_draw_color>>

\* Layers::draw_text + add_text
TextPrimAlwaysTranslated(position, layout, is_absolute_position) ==
    [kind |-> "Text",
     pos |-> Pt(position[1] + viewport.min[1], position[2] + viewport.min[2]),
     layout |-> layout]
TextPrim(position, layout, is_absolute_position) ==
    [kind |-> "Text",
     pos |-> IF is_absolute_position THEN position
             ELSE Pt(position[1] + viewport.min[1], position[2] + viewport.min[2]),
     layout |-> layout]

DrawText ==
    \E position \in TextPosVals, layout \in LayoutVals, is_absolute_position \in BOOLEAN :
        /\ Len(added) < MaxPrims
        /\ Push([clip_rect |-> viewport,
                 primitive |-> TextPrim(position, layout, is_absolute_position)],
                position, is_absolute_position)
        /\ lop' = "other"
        /\ UNCHANGED <<current_layer, viewport, current_draw_color>>

\* the Layers API
LayersNext ==
    \/ Reset
    \/ ConsumeLayers
    \/ SetViewport
    \/ SetDrawLayer
    \/ SetDrawSublayer
    \/ SetDrawColor
    \/ DrawRect
    \/ DrawQuad
    \/ DrawText

----------------------------------------------------------------------------
(* Mesh and Tessellator *)

\* TextureId::default(): the id of the font atlas texture
DefaultTextureId == 0

\* NormalizedRect::white_uv
WhiteUv == ZeroRect

\* Mesh::default
EmptyMesh == [vertices |-> <<>>, indices |-> <<>>, texture_id |-> DefaultTextureId]

Vertex(pos, uv, color, layer_idx) ==
    [pos |-> pos, uv |-> uv, color |-> color, layer_idx |-> layer_idx]

QuadIndicesFromZero(i) == <<0, 1, 3, 1, 2, 3>>
QuadIndices(i) == <<i, i + 1, i + 3, i + 1, i + 2, i + 3>>

\* Mesh::add_quad
MeshAddQuad(mesh, quad, uv, color, layer_idx) ==
    LET i == Len(mesh.vertices)
    IN  [mesh EXCEPT
            !.indices = @ \o QuadIndices(i),
            !.vertices = @ \o [k \in 1..4 |-> Vertex(quad[k], uv[k], color, layer_idx)]]

\* Mesh::add_rect: top_left, top_right, bottom_right, bottom_left
MeshAddRect(mesh, rect, uv, color, layer_idx) ==
    MeshAddQuad(mesh, QuadOfRect(rect), QuadOfRect(uv), color, layer_idx)

\* Mesh::is_empty
MeshIsEmptyNever(mesh) == FALSE
MeshIsEmpty(mesh) == mesh.vertices = <<>> /\ mesh.indices = <<>>

\* euclid Box2D::is_empty
RectIsEmptyNegativeOnly(r) == r.max[1] < r.min[1] \/ r.max[2] < r.min[2]
RectIsEmpty(r) == ~(r.max[1] > r.min[1] /\ r.max[2] > r.min[2])

\* DrawPrimitive::texture_id
PrimTextureIdTextOwn(primitive) ==
    IF primitive.kind \in {"Rect", "Quad"} /\ primitive.texture # None
    THEN primitive.texture[1].texture_id
    ELSE IF primitive.kind = "Text" THEN DefaultTextureId + 1
    ELSE DefaultTextureId
PrimTextureId(primitive) ==
    IF primitive.kind \in {"Rect", "Quad"} /\ primitive.texture # None
    THEN primitive.texture[1].texture_id
    ELSE DefaultTextureId

\* FontAtlasRect::normalize: each coordinate divided by the atlas side, kept as the
\* fraction <<numerator, denominator>>
NormalizePt(p, size) == Pt(<<p[1], size[1]>>, <<p[2], size[2]>>)
NormalizeUv(uv, size) == [min |-> NormalizePt(uv.min, size), max |-> NormalizePt(uv.max, size)]

\* Tessellator::convert_rect_primitive / convert_quad_primitive
ConvertRectPrimitive(p, mesh) ==
    LET t == IF p.texture = None
             THEN [texture_id |-> DefaultTextureId, uv |-> WhiteUv, layer_idx |-> 0]
             ELSE p.texture[1]
    IN  [MeshAddRect(mesh, p.rect, t.uv, p.color, t.layer_idx) EXCEPT !.texture_id = t.texture_id]

ConvertQuadPrimitive(p, mesh) ==
    LET t == IF p.texture = None
             THEN [texture_id |-> DefaultTextureId, uv |-> WhiteUv, layer_idx |-> 0]
             ELSE p.texture[1]
    IN  [MeshAddQuad(mesh, p.quad, QuadOfRect(t.uv), p.color, t.layer_idx)
            EXCEPT !.texture_id = t.texture_id]

\* the glyphs of a layout, row by row
RECURSIVE AllGlyphs(_)
AllGlyphs(rows) ==
    IF rows = <<>> THEN <<>> ELSE Head(rows).glyphs \o AllGlyphs(Tail(rows))

RECURSIVE AddGlyphs(_, _, _, _)
AddGlyphs(mesh, glyphs, layout_pos, font_atlas_size) ==
    IF glyphs = <<>> THEN mesh
    ELSE LET glyph == Head(glyphs)
         IN  AddGlyphs(MeshAddRect(mesh, TranslateRect(glyph.rect, layout_pos),
                                   NormalizeUv(glyph.uv, font_atlas_size), glyph.color, 0),
                       Tail(glyphs), layout_pos, font_atlas_size)

\* Tessellator::convert_text_primitive
ConvertTextPrimitive(p, font_atlas_size, mesh) ==
    IF p.layout.rows = <<>> THEN mesh
    ELSE AddGlyphs(mesh, AllGlyphs(p.layout.rows), p.pos, font_atlas_size)

\* the test of convert_clipped_primitive that decides between appending to the
\* last mesh and starting a new one
StartNewMeshClipOnly(meshes, clip_rect, primitive) ==
    IF meshes = <<>> THEN TRUE
    ELSE ~(meshes[Len(meshes)].clip_rect = clip_rect)
StartNewMesh(meshes, clip_rect, primitive) ==
    IF meshes = <<>> THEN TRUE
    ELSE ~(/\ meshes[Len(meshes)].clip_rect = clip_rect
           /\ meshes[Len(meshes)].mesh.texture_id = PrimTextureId(primitive))

\* Tessellator::convert_clipped_primitive: out_clipped_meshes after the call
ConvertClippedPrimitiveMergeAny(cp, font_atlas_size, meshes) ==
    IF RectIsEmpty(cp.clip_rect) THEN meshes
    ELSE LET same == {i \in 1..Len(meshes) :
                         /\ meshes[i].clip_rect = cp.clip_rect
                         /\ meshes[i].mesh.texture_id = PrimTextureId(cp.primitive)}
             started == IF same = {}
                        THEN Append(meshes, [clip_rect |-> cp.clip_rect, mesh |-> EmptyMesh])
                        ELSE meshes
             n == IF same = {} THEN Len(started)
                  ELSE CHOOSE i \in same : \A j \in same : j <= i
             last == started[n].mesh
             p == cp.primitive
             conv == CASE p.kind = "Rect" -> ConvertRectPrimitive(p, last)
                       [] p.kind = "Quad" -> ConvertQuadPrimitive(p, last)
                       [] p.kind = "Text" -> ConvertTextPrimitive(p, font_atlas_size, last)
         IN  IF MeshIsEmpty(conv) THEN SubSeq(started, 1, Len(started) - 1)
             ELSE [started EXCEPT ![n].mesh = conv]
ConvertClippedPrimitive(cp, font_atlas_size, meshes) ==
    IF RectIsEmpty(cp.clip_rect) THEN meshes
    ELSE LET started == IF StartNewMesh(meshes, cp.clip_rect, cp.primitive)
                        THEN Append(meshes, [clip_rect |-> cp.clip_rect, mesh |-> EmptyMesh])
                        ELSE meshes
             n == Len(started)
             last == started[n].mesh
             p == cp.primitive
             conv == CASE p.kind = "Rect" -> ConvertRectPrimitive(p, last)
                       [] p.kind = "Quad" -> ConvertQuadPrimitive(p, last)
                       [] p.kind = "Text" -> ConvertTextPrimitive(p, font_atlas_size, last)
         IN  IF MeshIsEmpty(conv) THEN SubSeq(started, 1, n - 1)
             ELSE [started EXCEPT ![n].mesh = conv]

RECURSIVE ConvertClippedPrimitives(_, _, _)
ConvertClippedPrimitives(prims, font_atlas_size, meshes) ==
    IF prims = <<>> THEN meshes
    ELSE ConvertClippedPrimitives(Tail(prims), font_atlas_size,
                                  ConvertClippedPrimitive(Head(prims), font_atlas_size, meshes))

TessInit ==
    /\ last_clipped_meshes_size = 0
    /\ clipped_meshes = <<>>
    /\ tessPc = "idle"
    /\ tessLog = <<>>

\* longest primitive stream handed to one conversion
MaxStream == 4

ClipA == MkRect(0, 0, 8, 6)
ClipB == MkRect(2, 1, 6, 5)
ClipEmpty == MkRect(3, 3, 3, 5)
AtlasSizeVal == <<1024, 256>>
UnitRect == MkRect(1, 1, 2, 2)
NoRowsLayout ==
    [id |-> 2, job_hash |-> 9, num_of_vertices |-> 0, num_of_indices |-> 0, rows |-> <<>>]

\* a Layout of two rows, the first of two glyphs
TwoRowLayout ==
    [id |-> 3, job_hash |-> 11, num_of_vertices |-> 12, num_of_indices |-> 18,
     rows |-> <<[glyphs |-> <<[rect |-> MkRect(0, 0, 2, 3), uv |-> MkRect(2, 0, 4, 3),
                               color |-> WHITE],
                              [rect |-> MkRect(2, 0, 3, 3), uv |-> MkRect(5, 0, 6, 3),
                               color |-> WHITE]>>],
                [glyphs |-> <<[rect |-> MkRect(0, 4, 2, 7), uv |-> MkRect(2, 0, 4, 3),
                               color |-> WHITE]>>]>>]

TexRect(clip, tex) ==
    [clip_rect |-> clip,
     primitive |-> [kind |-> "Rect", rect |-> UnitRect, color |-> WHITE,
                    texture |-> IF tex = None THEN None
                                ELSE Some([texture_id |-> tex[1], uv |-> DefaultUv, layer_idx |-> 0])]]
TexQuad(clip, tex) ==
    [clip_rect |-> clip,
     primitive |-> [kind |-> "Quad", quad |-> QuadOfRect(UnitRect), color |-> WHITE,
                    texture |-> IF tex = None THEN None
                                ELSE Some([texture_id |-> tex[1], uv |-> DefaultUv, layer_idx |-> 0])]]
TextAt(clip, layout) ==
    [clip_rect |-> clip, primitive |-> [kind |-> "Text", pos |-> Pt(1, 2), layout |-> layout]]

\* the primitives a stream is made of; texture ids 5 and 6 are image textures
TessPrims ==
    {TexRect(ClipA, t) : t \in {None, Some(5), Some(6)}}
    \cup {TexRect(ClipB, Some(6)), TexRect(ClipEmpty, None), TexQuad(ClipA, Some(5))}
    \cup {TextAt(ClipA, SampleLayout), TextAt(ClipA, NoRowsLayout), TextAt(ClipB, NoRowsLayout)}
    \cup {TexQuad(ClipA, None), TextAt(ClipEmpty, SampleLayout), TextAt(ClipA, TwoRowLayout)}

\* convert_clipped_primitives: entry, one loop iteration, exit
TessBegin ==
    /\ tessPc = "idle"
    /\ tessPc' = "loop"
    /\ clipped_meshes' = <<>>
    /\ tessLog' = <<>>
    /\ UNCHANGED last_clipped_meshes_size

RECURSIVE TotalVertices(_)
TotalVertices(meshes) ==
    IF meshes = <<>> THEN 0
    ELSE Len(Head(meshes).mesh.vertices) + TotalVertices(Tail(meshes))

TessStep ==
    /\ tessPc = "loop"
    /\ Len(tessLog) < MaxStream
    /\ \E cp \in TessPrims :
        LET out == ConvertClippedPrimitive(cp, AtlasSizeVal, clipped_meshes)
            contributed == TotalVertices(out) > TotalVertices(clipped_meshes)
        IN  /\ clipped_meshes' = out
            /\ tessLog' = Append(tessLog, [prim |-> cp, contributed |-> contributed,
                                           batch |-> IF contributed THEN Len(out) ELSE 0])
    /\ UNCHANGED <<last_clipped_meshes_size, tessPc>>

TessEnd ==
    /\ tessPc = "loop"
    /\ tessPc' = "idle"
    /\ last_clipped_meshes_size' = Len(clipped_meshes)
    /\ UNCHANGED <<clipped_meshes, tessLog>>

TessNext == TessBegin \/ TessStep \/ TessEnd

----------------------------------------------------------------------------
(* FontAtlas *)

\* Fonts::new: FontAtlas::new(1024)
MaxTextureSide == 1024
\* FontAtlas::new: initial_height
InitialHeight == 256
\* FontAtlas::allocate: PADDING
PADDING == 1

Max(a, b) == IF a >= b THEN a ELSE b

\* while new_height < required { new_height *= 2 }
RECURSIVE GrownHeight(_, _)
GrownHeight(new_height, required) ==
    IF new_height < required THEN GrownHeight(new_height * 2, required) ELSE new_height

\* The pixels of the image are kept for the points that were written one by one
\* (the white pixel, the first pixel of each glyph bitmap): pixels is a function from
\* such points to their Srgba; every other point never written since the image was
\* created or filled is transparent.
NoPixels == [p \in {} |-> TRANSPARENT]

InRegion(p, r) ==
    /\ r.min[1] <= p[1] /\ p[1] < r.max[1]
    /\ r.min[2] <= p[2] /\ p[2] < r.max[2]

\* image Pixel::blend for Rgba<u8>, as imageops::overlay applies it to a pixel bg of
\* the image below and a pixel fg of the image above: an fg of alpha 0 leaves bg, an
\* fg of full alpha replaces it, and otherwise the two are composited (alpha
\* a_f + a_b - a_f * a_b, colours weighted by alpha), which over a bg of alpha 0
\* gives fg
Blend(bg, fg) ==
    IF fg[4] = 0 THEN bg
    ELSE IF fg[4] = 255 \/ bg[4] = 0 THEN fg
    ELSE LET alpha == fg[4] + bg[4] - (fg[4] * bg[4]) \div 255
             Mix(i) == (fg[i] * fg[4] * 255 + bg[i] * bg[4] * (255 - fg[4]))
                       \div (255 * alpha)
         IN  <<Mix(1), Mix(2), Mix(3), alpha>>

\* extend_image_height: RgbaImage::from_pixel(width, new_height, fill_color), then
\* imageops::overlay(&mut extended_image, image, 0, 0)
ExtendImageHeight(pixels, fill_color) ==
    [p \in DOMAIN pixels |-> Blend(fill_color, pixels[p])]

\* SubImage::put_pixel at (0, 0) of a view on region r, after the rest of the
\* region was written with pixels not kept here
PutFirstPixel(a, r, color) ==
    [a EXCEPT !.pixels =
        [p \in {q \in DOMAIN a.pixels : ~InRegion(q, r)} \cup {r.min} |->
            IF p = r.min THEN color ELSE a.pixels[p]]]

\* FontAtlas::allocate: the atlas after the call and the region of the returned view
AtlasAllocateNotDirty(a, size) ==
    LET wrap == a.cursor[1] + size[1] > a.width
        cursor1 == IF wrap THEN Pt(0, a.cursor[2] + a.current_row_height + PADDING)
                   ELSE a.cursor
        row1 == Max(IF wrap THEN 0 ELSE a.current_row_height, size[2])
        required_atlas_height == cursor1[2] + row1
        overflow == required_atlas_height > a.max_texture_side
        grow == ~overflow /\ required_atlas_height > a.height
        pos == IF overflow THEN Pt(0, a.height \div 3) ELSE cursor1
    IN  [atlas |-> [a EXCEPT !.cursor = Pt(pos[1] + size[1] + PADDING, pos[2]),
                             !.current_row_height = row1,
                             !.overflowed = IF overflow THEN TRUE ELSE @,
                             !.height = IF grow THEN GrownHeight(@, required_atlas_height) ELSE @,
                             !.pixels = IF grow THEN ExtendImageHeight(@, TRANSPARENT) ELSE @],
         region |-> [min |-> pos, max |-> Pt(pos[1] + size[1], pos[2] + size[2])]]
AtlasAllocateNoPadding(a, size) ==
    LET wrap == a.cursor[1] + size[1] > a.width
        cursor1 == IF wrap THEN Pt(0, a.cursor[2] + a.current_row_height)
                   ELSE a.cursor
        row1 == Max(IF wrap THEN 0 ELSE a.current_row_height, size[2])
        required_atlas_height == cursor1[2] + row1
        overflow == required_atlas_height > a.max_texture_side
        grow == ~overflow /\ required_atlas_height > a.height
        pos == IF overflow THEN Pt(0, a.height \div 3) ELSE cursor1
    IN  [atlas |-> [a EXCEPT !.cursor = Pt(pos[1] + size[1], pos[2]),
                             !.current_row_height = row1,
                             !.overflowed = IF overflow THEN TRUE ELSE @,
                             !.height = IF grow THEN GrownHeight(@, required_atlas_height) ELSE @,
                             !.pixels = IF grow THEN ExtendImageHeight(@, TRANSPARENT) ELSE @,
                             !.dirty = TRUE],
         region |-> [min |-> pos, max |-> Pt(pos[1] + size[1], pos[2] + size[2])]]
AtlasAllocateNoRowAdvance(a, size) ==
    LET pos == a.cursor
    IN  [atlas |-> [a EXCEPT !.cursor = Pt(IF pos[1] + size[1] > a.width THEN 0
                                          ELSE pos[1] + size[1] + PADDING, pos[2]),
                             !.current_row_height = Max(@, size[2]),
                             !.dirty = TRUE],
         region |-> [min |-> IF pos[1] + size[1] > a.width THEN Pt(0, pos[2]) ELSE pos,
                     max |-> IF pos[1] + size[1] > a.width THEN Pt(size[1], pos[2] + size[2])
                             ELSE Pt(pos[1] + size[1], pos[2] + size[2])]]
AtlasAllocate(a, size) ==
    LET wrap == a.cursor[1] + size[1] > a.width
        cursor1 == IF wrap THEN Pt(0, a.cursor[2] + a.current_row_height + PADDING)
                   ELSE a.cursor
        row1 == Max(IF wrap THEN 0 ELSE a.current_row_height, size[2])
        required_atlas_height == cursor1[2] + row1
        overflow == required_atlas_height > a.max_texture_side
        grow == ~overflow /\ required_atlas_height > a.height
        pos == IF overflow THEN Pt(0, a.height \div 3) ELSE cursor1
    IN  [atlas |-> [a EXCEPT !.cursor = Pt(pos[1] + size[1] + PADDING, pos[2]),
                             !.current_row_height = row1,
                             !.overflowed = IF overflow THEN TRUE ELSE @,
                             !.height = IF grow THEN GrownHeight(@, required_atlas_height) ELSE @,
                             !.pixels = IF grow THEN ExtendImageHeight(@, TRANSPARENT) ELSE @,
                             !.dirty = TRUE],
         region |-> [min |-> pos, max |-> Pt(pos[1] + size[1], pos[2] + size[2])]]

\* FontAtlas::initialize: allocate(1, 1) and put the white pixel there
AtlasInitializeNoReserve(a) ==
    LET origin == [min |-> Pt(0, 0), max |-> Pt(1, 1)]
    IN  [atlas |-> PutFirstPixel(a, origin, WHITE), region |-> origin]
AtlasInitialize(a) ==
    LET r == AtlasAllocate(a, <<1, 1>>)
    IN  [atlas |-> PutFirstPixel(r.atlas, r.region, WHITE), region |-> r.region]

\* FontAtlas::new
AtlasNew(max_texture_side) ==
    AtlasInitialize([max_texture_side |-> max_texture_side,
                     width |-> max_texture_side,
                     height |-> InitialHeight,
                     cursor |-> Pt(0, 0),
                     pixels |-> NoPixels,
                     current_row_height |-> 0,
                     dirty |-> FALSE,
                     overflowed |-> FALSE])

\* FontAtlas::clear
AtlasClearedNotDirty(a) ==
    LET r == AtlasInitialize([a EXCEPT !.pixels = NoPixels,
                                       !.cursor = Pt(0, 0),
                                       !.current_row_height = 0,
                                       !.overflowed = FALSE])
    IN  [atlas |-> [r.atlas EXCEPT !.dirty = FALSE], region |-> r.region]
AtlasCleared(a) ==
    AtlasInitialize([a EXCEPT !.pixels = NoPixels,
                              !.cursor = Pt(0, 0),
                              !.current_row_height = 0,
                              !.dirty = FALSE,
                              !.overflowed = FALSE])

\* FontAtlas::size
AtlasSize(a) == <<a.width, a.height>>

\* the image of the atlas: its size and the pixels kept
ImageOf(a) == [size |-> AtlasSize(a), pixels |-> a.pixels]

\* FontAtlas::capacity, as the fraction <<numerator, denominator>>
CapacityOfRows(a) == <<a.cursor[2] + a.current_row_height, a.max_texture_side>>
Capacity(a) ==
    IF a.overflowed THEN <<1, 1>>
    ELSE <<a.cursor[2] + a.current_row_height, a.max_texture_side>>

\* FontAtlas::capacity() > 0.9, as begin_frame tests it: capacity is 1.0 when
\* overflowed, else (cursor.y + current_row_height) / max_texture_side
CapacityOverThresholdIgnoringOverflow(a) ==
    10 * (a.cursor[2] + a.current_row_height) > 9 * a.max_texture_side
CapacityOverThreshold(a) ==
    \/ a.overflowed
    \/ 10 * (a.cursor[2] + a.current_row_height) > 9 * a.max_texture_side

AtlasInit ==
    /\ atlas = AtlasNew(MaxTextureSide).atlas
    /\ regions = <<AtlasNew(MaxTextureSide).region>>
    /\ reqArea = 1
    /\ atlasDelta = None

\* most allocate calls between two clears
MaxAllocs == 4

\* write_to_atlas (fonts/rasterizer.rs): allocate a region of the size of the glyph
\* bitmap and put Srgba(255, 255, 255, a) for every value a of the mask; coverage is
\* the first value of the mask
WriteToAtlas(a, size, coverage) ==
    LET r == AtlasAllocate(a, size)
    IN  [atlas |-> PutFirstPixel(r.atlas, r.region, <<255, 255, 255, coverage>>),
         region |-> r.region]

\* first mask values of the bitmaps written: no coverage, full coverage
CoverageVals == {0, 255}

\* sizes handed to allocate
AllocSizes == {<<300, 200>>, <<600, 200>>, <<300, 400>>, <<600, 400>>, <<300, 700>>}

AtlasAllocateCall ==
    /\ Len(regions) <= MaxAllocs
    /\ \E size \in AllocSizes, coverage \in CoverageVals :
        LET r == WriteToAtlas(atlas, size, coverage)
        IN  /\ atlas' = r.atlas
            /\ regions' = Append(regions, r.region)
            /\ reqArea' = reqArea + size[1] * size[2]
    /\ UNCHANGED atlasDelta

AtlasClearCall ==
    /\ atlas' = AtlasCleared(atlas).atlas
    /\ regions' = <<AtlasCleared(atlas).region>>
    /\ reqArea' = 1
    /\ UNCHANGED atlasDelta

\* FontAtlas::take_delta
AtlasTakeDeltaCall ==
    /\ atlasDelta' = IF atlas.dirty THEN Some([size |-> AtlasSize(atlas)]) ELSE None
    /\ atlas' = [atlas EXCEPT !.dirty = FALSE]
    /\ UNCHANGED <<regions, reqArea>>

AtlasNext == AtlasAllocateCall \/ AtlasClearCall \/ AtlasTakeDeltaCall

\* the same calls with their history: fop is the call made, lastCall says whether
\* allocate or clear ran since the last take_delta (new() has run allocate) and,
\* after a take_delta, whether that was so when it was called
ModifiedSinceTake == lastCall = None \/ lastCall[1].modified

DeltaAllocate ==
    /\ AtlasAllocateCall
    /\ lastCall' = Some([modified |-> TRUE, was |-> FALSE])
    /\ fop' = "allocate"

DeltaClear ==
    /\ AtlasClearCall
    /\ lastCall' = Some([modified |-> TRUE, was |-> FALSE])
    /\ fop' = "clear"

DeltaTake ==
    /\ AtlasTakeDeltaCall
    /\ lastCall' = Some([modified |-> FALSE, was |-> ModifiedSinceTake])
    /\ fop' = "take_delta"

DeltaNext == DeltaAllocate \/ DeltaClear \/ DeltaTake

----------------------------------------------------------------------------
(* Fonts: layout jobs, shaping, glyph keys (fonts/layout.rs, fonts/glyph_key.rs) *)

\* Positions that the shaper produces are fractional pixels; they are kept in
\* eighths of a pixel (x8 = 8 * x), which is exact for the positions used here.
\* SubpixelBin<4>
NUM_OF_BINS == 4
SubUnit == 2 * NUM_OF_BINS

\* fontique's resolution of FontStack::Single(family) and a weight to a font blob
\* (its blob id): monospace, sans-serif, sans-serif bold
FontOf(family, weight) ==
    IF family = "Monospace" THEN 1
    ELSE IF weight = Some(700) THEN 3 ELSE 2

\* glyph 0 is whitespace; tenths of the font size that the bitmap of a glyph is wide
\* (glyph 4 has an outline without width)
GlyphAspect == <<12, 3, 5, 0>>
\* swash Render::render_into: placement.width and placement.height of the bitmap
BitmapSizeNeverZero(glyph_id, font_size) ==
    <<(((IF glyph_id = 0 THEN 1 ELSE GlyphAspect[glyph_id]) * font_size) \div 10) + 1,
      font_size>>
BitmapSize(glyph_id, font_size) ==
    IF glyph_id = 0 THEN <<0, 0>>
    ELSE <<(GlyphAspect[glyph_id] * font_size) \div 10, font_size>>
\* the shaper's advance of a glyph, in eighths: the bitmap width and a quarter pixel
Advance8(glyph_id, font_size) ==
    IF glyph_id = 0 THEN 2 * font_size
    ELSE SubUnit * BitmapSize(glyph_id, font_size)[1] + 2

\* LayoutJob::new and append
LayoutJobNew(font_family, font_size, line_height, alignment, font_weight) ==
    [segments |-> <<>>, font_family |-> font_family, font_size |-> font_size,
     line_height |-> line_height, alignment |-> alignment, font_weight |-> font_weight]
JobAppend(job, text, color) ==
    [job EXCEPT !.segments = Append(@, [text |-> text, color |-> color])]

\* range of the model's hasher (the code's is 2^64)
HashMod == 65521
HashInt(h, v) == (h * 31 + (v % HashMod) + 1) % HashMod
RECURSIVE HashSeq(_, _)
HashSeq(h, s) == IF s = <<>> THEN h ELSE HashSeq(HashInt(h, Head(s)), Tail(s))
\* Hash of a slice: the length, then the items
HashSlice(h, s) == HashSeq(HashInt(h, Len(s)), s)
\* Hash of an Option: the discriminant, then the value
HashOption(h, o) == IF o = None THEN HashInt(h, 0) ELSE HashInt(HashInt(h, 1), o[1])
AlignmentCode(a) == IF a = "Min" THEN 0 ELSE IF a = "Center" THEN 1 ELSE 2
FamilyCode(f) == IF f = "Monospace" THEN 4 ELSE 1
RECURSIVE HashSegments(_, _)
HashSegments(h, segs) ==
    IF segs = <<>> THEN h
    ELSE HashSegments(HashSeq(HashSlice(h, Head(segs).text), Head(segs).color), Tail(segs))
\* impl Hash for LayoutJob
HashJob(h, job) ==
    LET h1 == HashSegments(HashInt(h, Len(job.segments)), job.segments)
        h2 == HashInt(h1, FamilyCode(job.font_family))
        h3 == HashInt(HashInt(h2, job.font_size), job.line_height)
        h4 == IF job.alignment = None THEN HashInt(h3, 0)
              ELSE HashInt(HashInt(h3, 1), AlignmentCode(job.alignment[1]))
    IN  HashOption(h4, job.font_weight)
\* calculate_hash(&(&job, OrderedFloat(pixels_per_point)))
LayoutHash(job, pixels_per_point) == HashInt(HashJob(0, job), pixels_per_point)

\* parley: one glyph run per segment on a single line, glyphs placed by their
\* advances; the result of builder.build() and break_all_lines(None)
RECURSIVE PlaceGlyphs(_, _, _)
PlaceGlyphs(text, font_size, x8) ==
    IF text = <<>> THEN <<>>
    ELSE <<[id |-> Head(text), x8 |-> x8, y8 |-> 0]>>
         \o PlaceGlyphs(Tail(text), font_size, x8 + Advance8(Head(text), font_size))
RECURSIVE TextWidth8(_, _)
TextWidth8(text, font_size) ==
    IF text = <<>> THEN 0
    ELSE Advance8(Head(text), font_size) + TextWidth8(Tail(text), font_size)
RECURSIVE ShapeRuns(_, _, _)
ShapeRuns(job, segs, x8) ==
    IF segs = <<>> THEN <<>>
    ELSE <<[font |-> FontOf(job.font_family, job.font_weight),
            font_size |-> job.font_size,
            normalized_coords |-> <<>>,
            skew |-> 0,
            brush |-> Head(segs).color,
            glyphs |-> PlaceGlyphs(Head(segs).text, job.font_size, x8)]>>
         \o ShapeRuns(job, Tail(segs), x8 + TextWidth8(Head(segs).text, job.font_size))
\* the lines of the parley layout, each the sequence of its glyph runs
ShapeLines(job) == <<ShapeRuns(job, job.segments, 0)>>
\* parley_layout.full_width(), in eighths
FullWidth8(job) ==
    LET runs == ShapeRuns(job, job.segments, 0)
    IN  IF runs = <<>> THEN 0
        ELSE LET r == runs[Len(runs)]
             IN  IF r.glyphs = <<>> THEN 0
                 ELSE r.glyphs[Len(r.glyphs)].x8
                      + Advance8(r.glyphs[Len(r.glyphs)].id, job.font_size)

\* SubpixelBin::<4>::new(position) for a position of p8 eighths: the floor of the
\* position plus half a bin, and the bin nearest to the fractional part
SubpixelBinNew(p8) ==
    LET half_bin_width8 == SubUnit \div (NUM_OF_BINS * 2)
        frac8 == p8 % SubUnit
        \* round(frac * NUM_OF_BINS), halves away from zero
        scaled_pos == (frac8 * NUM_OF_BINS * 2 + SubUnit) \div (2 * SubUnit)
    IN  [position |-> (p8 + half_bin_width8) \div SubUnit,
         bin |-> scaled_pos % NUM_OF_BINS]
\* the positions of test_subpixel_bins have two decimals: a position is kept here
\* as a number of hundredths
PosUnit == 100
\* SubpixelBin::<NUM_OF_BINS>::new(position) for any bin count and a position of
\* position100 hundredths; every step is exact in these units
SubpixelBinNewFloor(num_of_bins, position100) ==
    LET scaled_pos == ((position100 % PosUnit) * num_of_bins * 2 + PosUnit)
                      \div (2 * PosUnit)
    IN  [position |-> position100 \div PosUnit,
         bin |-> scaled_pos % num_of_bins]
SubpixelBinNewOf(num_of_bins, position100) ==
    LET \* (position + half_bin_width).floor(), over the denominator 2 * N * PosUnit
        new_position == (2 * num_of_bins * position100 + PosUnit)
                        \div (2 * num_of_bins * PosUnit)
        \* position - position.floor()
        frac100 == position100 - PosUnit * (position100 \div PosUnit)
        \* (frac * N).round(), halves away from zero
        scaled_pos == (frac100 * num_of_bins * 2 + PosUnit) \div (2 * PosUnit)
    IN  [position |-> new_position,
         bin |-> scaled_pos % num_of_bins]
\* f32::round of p8 eighths, halves away from zero
Round8(p8) ==
    IF p8 >= 0 THEN (2 * p8 + SubUnit) \div (2 * SubUnit)
    ELSE -((2 * (-p8) + SubUnit) \div (2 * SubUnit))
\* SubpixelBin::BIN_OFFSETS, in eighths
BIN_OFFSETS == [i \in 1..NUM_OF_BINS |-> ((i - 1) * SubUnit) \div NUM_OF_BINS]

\* GlyphKey::from_glyph
GlyphKeyWithPosition(glyph, style_id, pixels_per_point) ==
    LET b == SubpixelBinNew(glyph.x8 * pixels_per_point)
    IN  [key |-> [glyph_id |-> glyph.id, style_id |-> style_id, x_bin |-> b.bin,
                  pixels_per_point |-> pixels_per_point, x |-> b.position],
         pos |-> Pt(b.position, Round8(glyph.y8 * pixels_per_point))]
GlyphKeyFromGlyph(glyph, style_id, pixels_per_point) ==
    LET b == SubpixelBinNew(glyph.x8 * pixels_per_point)
    IN  [key |-> [glyph_id |-> glyph.id, style_id |-> style_id, x_bin |-> b.bin,
                  pixels_per_point |-> pixels_per_point],
         pos |-> Pt(b.position, Round8(glyph.y8 * pixels_per_point))]

----------------------------------------------------------------------------
(* GlyphRasterizer (fonts/rasterizer.rs) *)

EmptyMap == [k \in {} |-> None]
\* `let x = v; Op(x)`: v is evaluated once and Op applied to its value
Let(v, Op(_)) == CHOOSE y \in {Op(x) : x \in {v}} : TRUE
MapPut(m, k, v) == [x \in DOMAIN m \cup {k} |-> IF x = k THEN v ELSE m[x]]

\* GlyphRasterizer::new; swash_keys is kept as the set of its keys
GlyphRasterizerNew ==
    [swash_keys |-> {}, style_ids |-> EmptyMap, next_style_id |-> 0,
     cached_glyphs |-> EmptyMap]

\* GlyphRasterizer::clear
GlyphRasterizerClearKeepGlyphs(gr) ==
    [gr EXCEPT !.swash_keys = {}, !.style_ids = EmptyMap, !.next_style_id = 0]
GlyphRasterizerClear(gr) ==
    [gr EXCEPT !.swash_keys = {}, !.style_ids = EmptyMap, !.next_style_id = 0,
               !.cached_glyphs = EmptyMap]

\* GlyphRasterizer::get_font_ref (font index 0)
GetFontRef(gr, font) == [gr EXCEPT !.swash_keys = @ \cup {<<font, 0>>}]

\* GlyphRasterizer::get_style_id: the rasterizer after the call and the id
GetStyleId(gr, font, font_size, norm_coords, skew) ==
    LET style_key == [font_blob_id |-> font, font_size |-> font_size,
                      normalized_coords |-> norm_coords, skew |-> skew]
    IN  IF style_key \in DOMAIN gr.style_ids
        THEN [gr |-> gr, id |-> gr.style_ids[style_key]]
        ELSE [gr |-> [gr EXCEPT !.style_ids = MapPut(@, style_key, gr.next_style_id),
                                !.next_style_id = @ + 1],
              id |-> gr.next_style_id]

\* PhysicalRect::to_logical: every coordinate divided by the scale factor
ToLogical(r, pixels_per_point) ==
    [min |-> Pt(r.min[1] \div pixels_per_point, r.min[2] \div pixels_per_point),
     max |-> Pt(r.max[1] \div pixels_per_point, r.max[2] \div pixels_per_point)]

\* RasterizedGlyph::from_cached
FromCached(cached, position, color, pixels_per_point) ==
    LET origin == Pt(position[1] + cached.baseline_offset[1],
                     position[2] + cached.baseline_offset[2])
        w == cached.uv.max[1] - cached.uv.min[1]
        h == cached.uv.max[2] - cached.uv.min[2]
    IN  [rect |-> ToLogical([min |-> origin, max |-> Pt(origin[1] + w, origin[2] + h)],
                            pixels_per_point),
         uv |-> cached.uv,
         color |-> color]

\* the first value of a rendered mask: the top left corner of the bitmap, which the
\* outlines of the glyphs used here do not cover
FirstCoverage == 0

\* swash Render::render_into: false for a glyph the font has no outline or bitmap
\* for; glyph 5 stands for such a glyph
Unrenderable == {5}
DidRender(glyph_id) == glyph_id \notin Unrenderable

\* the closure of rasterize_glyph_run for one positioned glyph; st is
\* [atlas, cached_glyphs, regions], the result adds the Option<RasterizedGlyph>
RasterizeGlyph(st, glyph, style_id, font_size, color, glyph_offset8, pixels_per_point) ==
    LET moved == [glyph EXCEPT !.x8 = @ + glyph_offset8[1], !.y8 = @ + glyph_offset8[2]]
        kp == GlyphKeyFromGlyph(moved, style_id, pixels_per_point)
        size == BitmapSize(glyph.id, font_size)
        alloc == WriteToAtlas(st.atlas, size, FirstCoverage)
        cached_glyph == [uv |-> alloc.region, baseline_offset |-> Pt(0, -size[2])]
    IN  IF kp.key \in DOMAIN st.cached_glyphs
        THEN [st |-> st,
              out |-> IF st.cached_glyphs[kp.key] = None THEN None
                      ELSE Some(FromCached(st.cached_glyphs[kp.key][1], kp.pos, color,
                                           pixels_per_point))]
        ELSE IF ~DidRender(glyph.id) \/ size[1] = 0 \/ size[2] = 0
        THEN [st |-> [st EXCEPT !.cached_glyphs = MapPut(@, kp.key, None)],
              out |-> None]
        ELSE [st |-> [atlas |-> alloc.atlas,
                      cached_glyphs |-> MapPut(st.cached_glyphs, kp.key, Some(cached_glyph)),
                      regions |-> Append(st.regions, alloc.region)],
              out |-> Some(FromCached(cached_glyph, kp.pos, color, pixels_per_point))]

\* the iterator of rasterize_glyph_run driven to its end; acc is [st, out]: the
\* state and the items yielded so far
RECURSIVE RasterizeGlyphs(_, _, _, _, _, _, _)
RasterizeGlyphs(acc, glyphs, style_id, font_size, color, glyph_offset8, pixels_per_point) ==
    IF glyphs = <<>> THEN acc
    ELSE Let(RasterizeGlyph(acc.st, Head(glyphs), style_id, font_size, color,
                            glyph_offset8, pixels_per_point),
             LAMBDA one :
                 RasterizeGlyphs([st |-> one.st, out |-> Append(acc.out, one.out)],
                                 Tail(glyphs), style_id, font_size, color,
                                 glyph_offset8, pixels_per_point))

\* GlyphRasterizer::rasterize_glyph_run; F is [atlas, glyph_rasterizer, layout_cache,
\* regions], the result is F after the run and the items yielded
RasterizeGlyphRun(F, run, glyph_offset8, pixels_per_point) ==
    LET font_size == run.font_size * pixels_per_point
    IN  Let(GetStyleId(GetFontRef(F.glyph_rasterizer, run.font), run.font, font_size,
                       run.normalized_coords, run.skew),
            LAMBDA sid :
                Let(RasterizeGlyphs([st |-> [atlas |-> F.atlas,
                                             cached_glyphs |-> sid.gr.cached_glyphs,
                                             regions |-> F.regions],
                                     out |-> <<>>],
                                    run.glyphs, sid.id, font_size, run.brush,
                                    glyph_offset8, pixels_per_point),
                    LAMBDA r :
                        [F |-> [F EXCEPT !.atlas = r.st.atlas,
                                         !.glyph_rasterizer =
                                             [sid.gr EXCEPT !.cached_glyphs =
                                                                r.st.cached_glyphs],
                                         !.regions = r.st.regions],
                         out |-> r.out]))

----------------------------------------------------------------------------
(* Fonts and LayoutCache (fonts.rs) *)

\* current_generation is a u32 that wraps; only equality of generations is ever
\* tested, so the model wraps it at a small modulus
GenModulus == 2

LayoutCacheDefault == [current_generation |-> 0, cache |-> EmptyMap]

\* LayoutCache::get: the cache after the call and the Option<Arc<Layout>>
LayoutCacheGetNoStamp(lc, hash) ==
    IF hash \in DOMAIN lc.cache
    THEN [lc |-> lc, layout |-> Some(lc.cache[hash].layout)]
    ELSE [lc |-> lc, layout |-> None]
LayoutCacheGet(lc, hash) ==
    IF hash \in DOMAIN lc.cache
    THEN [lc |-> [lc EXCEPT !.cache[hash].generation = lc.current_generation],
          layout |-> Some(lc.cache[hash].layout)]
    ELSE [lc |-> lc, layout |-> None]

\* LayoutCache::insert
LayoutCacheInsertNothing(lc, hash, layout) == lc
LayoutCacheInsert(lc, hash, layout) ==
    [lc EXCEPT !.cache = MapPut(@, hash, [generation |-> lc.current_generation,
                                          layout |-> layout])]

\* LayoutCache::flush
LayoutCacheFlushKeepAll(lc) ==
    [lc EXCEPT !.current_generation = (@ + 1) % GenModulus]
LayoutCacheFlush(lc) ==
    LET kept == {h \in DOMAIN lc.cache : lc.cache[h].generation = lc.current_generation}
    IN  [cache |-> [h \in kept |-> lc.cache[h]],
         current_generation |-> (lc.current_generation + 1) % GenModulus]

\* LayoutCache::clear
LayoutCacheClear(lc) == [lc EXCEPT !.cache = EmptyMap]

\* the inner loops of Fonts::layout over the glyph runs of one line; acc is
\* [F, glyphs]: the fonts and the glyphs pushed to the row so far
RECURSIVE RasterizeLine(_, _, _, _)
RasterizeLine(acc, runs, glyph_offset8, pixels_per_point) ==
    IF runs = <<>> THEN acc
    ELSE Let(RasterizeGlyphRun(acc.F, Head(runs), glyph_offset8, pixels_per_point),
             LAMBDA one :
                 LET some == SelectSeq(one.out, LAMBDA o : o # None)
                 IN  RasterizeLine([F |-> one.F,
                                    glyphs |-> acc.glyphs
                                               \o [i \in 1..Len(some) |-> some[i][1]]],
                                   Tail(runs), glyph_offset8, pixels_per_point))

\* the outer loop of Fonts::layout over the lines; acc is [F, rows]; a row without
\* glyphs is not pushed
RECURSIVE RasterizeLines(_, _, _, _)
RasterizeLines(acc, lines, glyph_offset8, pixels_per_point) ==
    IF lines = <<>> THEN acc
    ELSE Let(RasterizeLine([F |-> acc.F, glyphs |-> <<>>], Head(lines), glyph_offset8,
                           pixels_per_point),
             LAMBDA one :
                 RasterizeLines([F |-> one.F,
                                 rows |-> IF one.glyphs = <<>> THEN acc.rows
                                          ELSE Append(acc.rows, [glyphs |-> one.glyphs])],
                                Tail(lines), glyph_offset8, pixels_per_point))

RECURSIVE CountGlyphs(_)
CountGlyphs(rows) ==
    IF rows = <<>> THEN 0 ELSE Len(Head(rows).glyphs) + CountGlyphs(Tail(rows))

\* Fonts::layout. new_id names the Arc allocated on a miss. The result is F after
\* the call, the Arc<Layout> returned and whether it came from the cache.
FontsLayout(F, job, pixels_per_point, new_id) ==
    LET hash == LayoutHash(job, pixels_per_point)
        got == LayoutCacheGet(F.layout_cache, hash)
        glyph_offset8 ==
            IF job.alignment = Some("Center") THEN Pt(-(FullWidth8(job) \div 2), 0)
            ELSE IF job.alignment = Some("Max") THEN Pt(-FullWidth8(job), 0)
            ELSE Pt(0, 0)
    IN  IF got.layout # None
        THEN [F |-> [F EXCEPT !.layout_cache = got.lc], layout |-> got.layout[1],
              hit |-> TRUE]
        ELSE Let(RasterizeLines([F |-> F, rows |-> <<>>], ShapeLines(job), glyph_offset8,
                                pixels_per_point),
                 LAMBDA r :
                     LET layout == [id |-> new_id,
                                    job_hash |-> hash,
                                    rows |-> r.rows,
                                    num_of_vertices |-> 4 * CountGlyphs(r.rows),
                                    num_of_indices |-> 6 * CountGlyphs(r.rows)]
                     IN  [F |-> [r.F EXCEPT !.layout_cache =
                                                LayoutCacheInsert(@, hash, layout)],
                          layout |-> layout, hit |-> FALSE])

\* Fonts::clear_atlas
FontsClearAtlasKeepGlyphs(F) ==
    [F EXCEPT !.atlas = AtlasCleared(F.atlas).atlas,
              !.layout_cache = LayoutCacheClear(@),
              !.regions = <<AtlasCleared(F.atlas).region>>]
FontsClearAtlas(F) ==
    [F EXCEPT !.atlas = AtlasCleared(F.atlas).atlas,
              !.glyph_rasterizer = GlyphRasterizerClear(@),
              !.layout_cache = LayoutCacheClear(@),
              !.regions = <<AtlasCleared(F.atlas).region>>]

\* Fonts::begin_frame
FontsBeginFrame(F) ==
    LET F1 == IF CapacityOverThreshold(F.atlas) THEN FontsClearAtlas(F) ELSE F
    IN  [F1 EXCEPT !.layout_cache = LayoutCacheFlush(@)]

\* the characters preloaded by preload_common_characters, cut down from the
\* printable ASCII range to a whitespace and one visible glyph
CommonChars == <<0, 3>>

\* Fonts::preload_text: the run is rasterized at each of the four bin offsets
RECURSIVE PreloadOffsets(_, _, _)
PreloadOffsets(F, run, i) ==
    IF i > NUM_OF_BINS THEN F
    ELSE Let(RasterizeGlyphRun(F, run, Pt(BIN_OFFSETS[i], 0), 1).F,
             LAMBDA F1 : PreloadOffsets(F1, run, i + 1))
PreloadText(F, text, font_size, font_family, font_weight) ==
    PreloadOffsets(F, [font |-> FontOf(font_family, font_weight),
                       font_size |-> font_size,
                       normalized_coords |-> <<>>,
                       skew |-> 0,
                       brush |-> TRANSPARENT,
                       glyphs |-> PlaceGlyphs(text, font_size, 0)], 1)

\* Fonts::preload_common_characters
PreloadCommonCharacters(F, font_size) ==
    Let(PreloadText(F, CommonChars, font_size, "Monospace", None),
        LAMBDA F1 :
            Let(PreloadText(F1, CommonChars, font_size, "SansSerif", None),
                LAMBDA F2 : PreloadText(F2, CommonChars, font_size, "SansSerif", Some(700))))

\* Fonts::new
FontsNew ==
    Let([atlas |-> AtlasNew(MaxTextureSide).atlas,
         glyph_rasterizer |-> GlyphRasterizerNew,
         layout_cache |-> LayoutCacheDefault,
         regions |-> <<AtlasNew(MaxTextureSide).region>>],
        LAMBDA F0 :
            Let(PreloadCommonCharacters(F0, 14),
                LAMBDA F1 : PreloadCommonCharacters(F1, 16)))

----------------------------------------------------------------------------
(* Fonts: the calls made on it *)

\* the layout jobs handed to Fonts::layout: a centered glyph and a whitespace;
\* two and three copies of a wide glyph, which land in different subpixel bins
JobA == JobAppend(LayoutJobNew("SansSerif", 500, 500, Some("Center"), None), <<2, 0>>, WHITE)
JobC == JobAppend(LayoutJobNew("SansSerif", 500, 500, None, None), <<1, 1>>, WHITE)
JobD == JobAppend(LayoutJobNew("SansSerif", 500, 500, None, None), <<1, 1, 1>>, WHITE)
\* the (job, pixels_per_point) pairs queried
Queries == {[job |-> j, pixels_per_point |-> 1] : j \in {JobA, JobC, JobD}}

FontsState ==
    [atlas |-> atlas, glyph_rasterizer |-> glyph_rasterizer,
     layout_cache |-> layout_cache, regions |-> regions]

RECURSIVE AreaSum(_)
AreaSum(rs) ==
    IF rs = <<>> THEN 0
    ELSE (Head(rs).max[1] - Head(rs).min[1]) * (Head(rs).max[2] - Head(rs).min[2])
         + AreaSum(Tail(rs))

FontHistoryInit ==
    /\ age = [q \in Queries |-> -1]
    /\ streak = [q \in Queries |-> FALSE]
    /\ lastRet = [q \in Queries |-> None]
    /\ lastCall = None
    /\ fop = "new"
    /\ beginSnap = None

\* the state after Fonts::new
FontsInit ==
    /\ atlas = FontsNew.atlas
    /\ glyph_rasterizer = FontsNew.glyph_rasterizer
    /\ layout_cache = FontsNew.layout_cache
    /\ regions = FontsNew.regions
    /\ reqArea = AreaSum(FontsNew.regions)
    /\ atlasDelta = None
    /\ FontHistoryInit

SetFonts(G) ==
    /\ atlas' = G.atlas
    /\ glyph_rasterizer' = G.glyph_rasterizer
    /\ layout_cache' = G.layout_cache
    /\ regions' = G.regions
    /\ reqArea' = AreaSum(G.regions)

FontsBeginFrameCall ==
    /\ \E G \in {FontsBeginFrame(FontsState)} : SetFonts(G)
    /\ age' = [q \in Queries |-> IF age[q] \in {0, 1} THEN age[q] + 1 ELSE age[q]]
    /\ streak' = [q \in Queries |-> streak[q] /\ age[q] = 0]
    /\ lastRet' = [q \in Queries |-> IF age[q] = 0 THEN lastRet[q] ELSE None]
    /\ lastCall' = None
    /\ fop' = "begin_frame"
    /\ beginSnap' = Some([overflowed |-> atlas.overflowed,
                          used |-> atlas.cursor[2] + atlas.current_row_height])
    /\ UNCHANGED atlasDelta

\* ids of the Arc<Layout> allocations that are still referred to
LiveIds ==
    {layout_cache.cache[h].layout.id : h \in DOMAIN layout_cache.cache}
    \cup {lastRet[q][1] : q \in {p \in Queries : lastRet[p] # None}}
FreshId == CHOOSE i \in 1..(Cardinality(LiveIds) + 1) : i \notin LiveIds

\* one call of Fonts::layout for query q with result r
FontsLayoutStep(q, r) ==
    /\ SetFonts(r.F)
    /\ age' = [age EXCEPT ![q] = 0]
    /\ streak' = [streak EXCEPT ![q] = IF age[q] = -1 THEN TRUE ELSE @]
    /\ lastRet' = [lastRet EXCEPT ![q] = Some(r.layout.id)]
    /\ lastCall' = Some([hit |-> r.hit,
                         same |-> lastRet[q] = Some(r.layout.id),
                         visible |-> r.layout.rows # <<>>,
                         ageBefore |-> age[q],
                         streakBefore |-> streak[q],
                         untouched |-> /\ r.F.atlas = atlas
                                       /\ r.F.glyph_rasterizer = glyph_rasterizer])
    /\ fop' = "layout"
    /\ UNCHANGED <<beginSnap, atlasDelta>>

FontsLayoutCall ==
    \E q \in Queries :
        \E r \in {FontsLayout(FontsState, q.job, q.pixels_per_point, FreshId)} :
            FontsLayoutStep(q, r)

FontsNext == FontsBeginFrameCall \/ FontsLayoutCall

----------------------------------------------------------------------------
(* calls of GlyphRasterizer::rasterize_glyph_run for runs of one glyph *)

\* glyph ids, positions in eighths of a pixel, offsets and scale factors of the runs
RasterGlyphIds == {0, 1, 4, 5}
RasterX8 == {0, 2}
RasterOffsets == {<<0, 0>>, <<8, 8>>}
ScaleVals == {1, 2}
RasterRun(glyph_id, x8) ==
    [font |-> FontOf("SansSerif", None), font_size |-> 16, normalized_coords |-> <<>>,
     skew |-> 0, brush |-> WHITE, glyphs |-> <<[id |-> glyph_id, x8 |-> x8, y8 |-> 0]>>]

\* the cached entries of rasterizer gr for a glyph id, style id, scale and bin
EntriesFor(gr, glyph_id, style_id, pixels_per_point, bin) ==
    {k \in DOMAIN gr.cached_glyphs :
        /\ k.glyph_id = glyph_id /\ k.style_id = style_id
        /\ k.pixels_per_point = pixels_per_point /\ k.x_bin = bin}

\* most glyphs cached between two clears
MaxCachedGlyphs == 3

RasterizeGlyphRunCall ==
    /\ Cardinality(DOMAIN glyph_rasterizer.cached_glyphs) < MaxCachedGlyphs
    /\ \E glyph_id \in RasterGlyphIds, x8 \in RasterX8, glyph_offset8 \in RasterOffsets,
          pixels_per_point \in ScaleVals :
        \E r \in {RasterizeGlyphRun(FontsState, RasterRun(glyph_id, x8), glyph_offset8,
                                    pixels_per_point)} :
            LET style_id == GetStyleId(glyph_rasterizer, FontOf("SansSerif", None),
                                       16 * pixels_per_point, <<>>, 0).id
                bin == SubpixelBinNew((x8 + glyph_offset8[1]) * pixels_per_point).bin
                key == <<glyph_id, style_id, pixels_per_point, bin>>
                pos == GlyphKeyFromGlyph([id |-> glyph_id, x8 |-> x8 + glyph_offset8[1],
                                          y8 |-> glyph_offset8[2]],
                                         style_id, pixels_per_point).pos
                before == EntriesFor(glyph_rasterizer, glyph_id, style_id,
                                     pixels_per_point, bin)
                after == EntriesFor(r.F.glyph_rasterizer, glyph_id, style_id,
                                    pixels_per_point, bin)
            IN  /\ SetFonts(r.F)
                /\ lastCall' = Some([glyph_id |-> glyph_id,
                                     key |-> key,
                                     pos |-> pos,
                                     repeated |-> /\ lastCall # None
                                                  /\ lastCall[1].key = key,
                                     moved |-> /\ lastCall # None
                                               /\ lastCall[1].pos[1] # pos[1]
                                               /\ lastCall[1].pos[2] # pos[2],
                                     known |-> before # {},
                                     entries |-> Cardinality(after),
                                     cached |-> {r.F.glyph_rasterizer.cached_glyphs[k] :
                                                    k \in after},
                                     out |-> r.out[1],
                                     rows |-> RasterizeLines(
                                                  [F |-> FontsState, rows |-> <<>>],
                                                  <<<<RasterRun(glyph_id, x8)>>>>,
                                                  glyph_offset8, pixels_per_point).rows,
                                     atlas_untouched |-> r.F.atlas = atlas,
                                     allocated |-> Len(r.F.regions) - Len(regions),
                                     cache_untouched |-> r.F.glyph_rasterizer.cached_glyphs
                                                         = glyph_rasterizer.cached_glyphs])
    /\ fop' = "rasterize_glyph_run"
    /\ UNCHANGED <<atlasDelta, age, streak, lastRet, beginSnap>>

\* Fonts::clear_atlas between two runs
ClearAtlasCall ==
    /\ \E G \in {FontsClearAtlas(FontsState)} : SetFonts(G)
    /\ lastCall' = None
    /\ fop' = "clear_atlas"
    /\ UNCHANGED <<atlasDelta, age, streak, lastRet, beginSnap>>

RasterNext == RasterizeGlyphRunCall \/ ClearAtlasCall

----------------------------------------------------------------------------
(* Content hash of Layers (layers.rs, renderer/primitives.rs) *)

\* hash_pos
HashPos(h, pos) == HashInt(HashInt(h, pos[1]), pos[2])
RECURSIVE HashPoints(_, _)
HashPoints(h, ps) == IF ps = <<>> THEN h ELSE HashPoints(HashPos(h, Head(ps)), Tail(ps))

\* impl Hash for RectTexture / QuadTexture, behind the Option
HashRectTexture(h, texture) ==
    IF texture = None THEN HashInt(h, 0)
    ELSE HashInt(HashPos(HashPos(HashInt(HashInt(h, 1), texture[1].texture_id),
                                 texture[1].uv.min), texture[1].uv.max),
                 texture[1].layer_idx)
HashQuadTexture(h, texture) ==
    IF texture = None THEN HashInt(h, 0)
    ELSE HashInt(HashPoints(HashInt(HashInt(h, 1), texture[1].texture_id), texture[1].uv),
                 texture[1].layer_idx)

\* derive(Hash) for DrawPrimitive: the discriminant, then the variant's own Hash
HashPrimitiveWithGlyphUvs(h, p) ==
    CASE p.kind = "Rect" ->
            HashRectTexture(HashSeq(HashPos(HashPos(HashInt(h, 0), p.rect.min), p.rect.max),
                                    p.color), p.texture)
      [] p.kind = "Quad" ->
            HashQuadTexture(HashSeq(HashPoints(HashInt(h, 1), p.quad), p.color), p.texture)
      [] p.kind = "Text" ->
            HashPoints(HashInt(HashPos(HashInt(h, 2), p.pos), p.layout.job_hash),
                       [i \in 1..Len(AllGlyphs(p.layout.rows)) |->
                           AllGlyphs(p.layout.rows)[i].uv.min])
HashPrimitive(h, p) ==
    CASE p.kind = "Rect" ->
            HashRectTexture(HashSeq(HashPos(HashPos(HashInt(h, 0), p.rect.min), p.rect.max),
                                    p.color), p.texture)
      [] p.kind = "Quad" ->
            HashQuadTexture(HashSeq(HashPoints(HashInt(h, 1), p.quad), p.color), p.texture)
      [] p.kind = "Text" ->
            HashInt(HashPos(HashInt(h, 2), p.pos), p.layout.job_hash)

\* impl Hash for ClippedPrimitive
HashClipped(h, cp) ==
    HashPrimitive(HashPos(HashPos(h, cp.clip_rect.min), cp.clip_rect.max), cp.primitive)
RECURSIVE HashClippedSeq(_, _)
HashClippedSeq(h, cps) ==
    IF cps = <<>> THEN h
    ELSE Let(HashClipped(h, Head(cps)), LAMBDA hc : HashClippedSeq(hc, Tail(cps)))

\* Hash of the BTreeMap: its length, then each key and bucket in key order
RECURSIVE HashBuckets(_, _)
HashBuckets(h, m) ==
    IF DOMAIN m = {} THEN h
    ELSE Let(FirstKey(DOMAIN m), LAMBDA k :
             Let(HashClippedSeq(HashInt(HashPos(h, k), Len(m[k])), m[k]), LAMBDA hk :
                 HashBuckets(hk, [x \in DOMAIN m \ {k} |-> m[x]])))

\* Layers::get_hash
GetHash(m) == HashBuckets(HashInt(0, Cardinality(DOMAIN m)), m)

----------------------------------------------------------------------------
(* TextureManager, PoBMode::frame, App::frame (renderer/textures.rs, pob.rs, app.rs) *)

\* TexturesDelta::is_empty
DeltaIsEmpty(d) == d.update = <<>> /\ d.free = <<>>

\* TextureManager::set for an allocated id: older queued updates of the id are dropped
TextureSet(d, id, image_delta) ==
    [d EXCEPT !.update = Append(SelectSeq(@, LAMBDA u : u.id # id),
                                [id |-> id, delta |-> image_delta])]

\* WrappedTextureManager::new: the font atlas texture is allocated as id 0
TextureManagerNew ==
    [update |-> <<[id |-> DefaultTextureId, delta |-> [size |-> <<0, 0>>]]>>, free |-> <<>>]

\* most texture ids handed out after that of the font atlas, and most live handles
\* of one texture
MaxTextures == 2
MaxHandles == 2

\* sizes of the images loaded
ImageSizes == {<<2, 2>>}

\* the TextureManager as a value
TM == [next_id |-> next_id, meta_data |-> meta_data, delta |-> textures_delta]

SetTM(tm) ==
    /\ next_id' = tm.next_id
    /\ meta_data' = tm.meta_data
    /\ textures_delta' = tm.delta

WithEntry(md, id, e) == [k \in DOMAIN md \cup {id} |-> IF k = id THEN e ELSE md[k]]
WithoutEntry(md, id) == [k \in DOMAIN md \ {id} |-> md[k]]

\* TextureManager::alloc
TmAlloc(tm, size) ==
    [tm EXCEPT !.next_id = @ + 1,
               !.meta_data = WithEntry(@, tm.next_id, [retain_count |-> 1, size |-> size]),
               !.delta.update = Append(@, [id |-> tm.next_id, delta |-> [size |-> size]])]

\* TextureManager::reserve
TmReserve(tm) ==
    [tm EXCEPT !.next_id = @ + 1,
               !.meta_data = WithEntry(@, tm.next_id,
                                       [retain_count |-> 1, size |-> <<0, 0>>])]

\* TextureManager::set; with an id that is not allocated the debug assertion is
\* met and nothing else happens
TmSet(tm, id, image_delta) ==
    IF id \in DOMAIN tm.meta_data
    THEN [tm EXCEPT !.meta_data[id].size = image_delta.size,
                    !.delta = TextureSet(@, id, image_delta)]
    ELSE tm

\* TextureManager::free
TmFreeKeepsEntry(tm, id) ==
    IF id \in DOMAIN tm.meta_data
    THEN IF tm.meta_data[id].retain_count - 1 <= 0
         THEN [tm EXCEPT !.meta_data[id].retain_count = 0,
                         !.delta.free = Append(@, id)]
         ELSE [tm EXCEPT !.meta_data[id].retain_count = @ - 1]
    ELSE tm
TmFree(tm, id) ==
    IF id \in DOMAIN tm.meta_data
    THEN IF tm.meta_data[id].retain_count - 1 = 0
         THEN [tm EXCEPT !.meta_data = WithoutEntry(@, id),
                         !.delta.free = Append(@, id)]
         ELSE [tm EXCEPT !.meta_data[id].retain_count = @ - 1]
    ELSE tm

\* TextureManager::retain
TmRetain(tm, id) ==
    IF id \in DOMAIN tm.meta_data
    THEN [tm EXCEPT !.meta_data[id].retain_count = @ + 1]
    ELSE tm

\* TextureManager::default, then WrappedTextureManager::new allocates id 0
TexInit ==
    /\ next_id = 1
    /\ meta_data = (0 :> [retain_count |-> 1, size |-> <<0, 0>>])
    /\ handles = [id \in 0..MaxTextures |-> 0]
    /\ loading = [id \in 0..MaxTextures |-> 0]
    /\ freed = <<>>
    /\ top = [op |-> "new", id |-> 0, allocated |-> TRUE]

\* what a call on the manager for id meets
Met(op, id) == [op |-> op, id |-> id, allocated |-> id \in DOMAIN meta_data]

\* load_texture(.., is_async = false): the image is loaded and allocated; a file
\* that does not load leaves the manager as it is
LoadTextureSync ==
    /\ next_id <= MaxTextures
    /\ \E size \in ImageSizes :
          /\ SetTM(TmAlloc(TM, size))
          /\ handles' = [handles EXCEPT ![next_id] = 1]
          /\ top' = [op |-> "alloc", id |-> next_id, allocated |-> FALSE]
    /\ UNCHANGED <<loading, freed>>

\* load_texture(.., is_async = true): the id is reserved, a worker job is queued and
\* the handle is returned
LoadTextureAsync ==
    /\ next_id <= MaxTextures
    /\ SetTM(TmReserve(TM))
    /\ handles' = [handles EXCEPT ![next_id] = 1]
    /\ loading' = [loading EXCEPT ![next_id] = 1]
    /\ top' = [op |-> "reserve", id |-> next_id, allocated |-> FALSE]
    /\ UNCHANGED freed

\* update_texture(id, .., is_async = true) by the holder of a handle
UpdateTextureAsync ==
    \E id \in 1..MaxTextures :
        /\ handles[id] > 0
        /\ loading[id] = 0
        /\ loading' = [loading EXCEPT ![id] = 1]
        /\ UNCHANGED <<next_id, meta_data, textures_delta, handles, freed, top>>

\* a worker job ends: the image was loaded and is set, or it was not and a warning
\* is logged
WorkerJobEnds ==
    \E id \in 1..MaxTextures, loaded \in BOOLEAN :
        /\ loading[id] > 0
        /\ loading' = [loading EXCEPT ![id] = 0]
        /\ IF loaded
           THEN \E size \in ImageSizes :
                    /\ SetTM(TmSet(TM, id, [size |-> size]))
                    /\ top' = Met("set", id)
           ELSE /\ top' = Met("load_failed", id)
                /\ UNCHANGED <<next_id, meta_data, textures_delta>>
        /\ UNCHANGED <<handles, freed>>

\* TextureHandle::clone
HandleClone ==
    \E id \in 1..MaxTextures :
        /\ handles[id] > 0
        /\ handles[id] < MaxHandles
        /\ SetTM(TmRetain(TM, id))
        /\ handles' = [handles EXCEPT ![id] = @ + 1]
        /\ top' = Met("retain", id)
        /\ UNCHANGED <<loading, freed>>

\* TextureHandle::drop
HandleDrop ==
    \E id \in 1..MaxTextures :
        /\ handles[id] > 0
        /\ SetTM(TmFree(TM, id))
        /\ handles' = [handles EXCEPT ![id] = @ - 1]
        /\ freed' = freed \o SubSeq(textures_delta'.free, Len(textures_delta.free) + 1,
                                    Len(textures_delta'.free))
        /\ top' = Met("free", id)
        /\ UNCHANGED loading

\* WrappedTextureManager::take_delta
TexTakeDelta ==
    /\ ~DeltaIsEmpty(textures_delta)
    /\ textures_delta' = [update |-> <<>>, free |-> <<>>]
    /\ top' = [op |-> "take_delta", id |-> 0, allocated |-> TRUE]
    /\ UNCHANGED <<next_id, meta_data, handles, loading, freed>>

TexNext ==
    \/ LoadTextureSync
    \/ LoadTextureAsync
    \/ UpdateTextureAsync
    \/ WorkerJobEnds
    \/ HandleClone
    \/ HandleDrop
    \/ TexTakeDelta

----------------------------------------------------------------------------
(* SubscriptManager and Subscript (subscript.rs) *)

\* most subscripts launched, and most calls that one subscript sends
MaxScripts == 2
MaxCalls == 2

NoTally == [sent |-> 0, blocking |-> 0, executed |-> 0, replied |-> 0, dropped |-> 0]

\* SubscriptManager::new
SubInit ==
    /\ current_id = 0
    /\ scripts = <<>>
    /\ tally = [id \in 0..(MaxScripts - 1) |-> NoTally]
    /\ results = <<>>

\* Subscript::handle_calls: one try_recv. on_sub_call is "ok", "fails" or "missing":
\* what the lookup and the call of the OnSubCall handler come to. A Blocking call
\* is answered with the return values or the error, which ends the thread's recv
HandleCallsNoReplyIfMissing(sc, t, on_sub_call) ==
    IF sc.calls = <<>> THEN [sc |-> sc, t |-> t]
    ELSE LET found == on_sub_call # "missing"
             ran == IF found THEN 1 ELSE 0
         IN  IF Head(sc.calls) = "Blocking" /\ found
             THEN [sc |-> [sc EXCEPT !.calls = Tail(@), !.thread = "running"],
                   t |-> [t EXCEPT !.executed = @ + ran, !.replied = @ + 1]]
             ELSE [sc |-> [sc EXCEPT !.calls = Tail(@)],
                   t |-> [t EXCEPT !.executed = @ + ran]]
HandleCalls(sc, t, on_sub_call) ==
    IF sc.calls = <<>> THEN [sc |-> sc, t |-> t]
    ELSE LET ran == IF on_sub_call # "missing" THEN 1 ELSE 0
         IN  IF Head(sc.calls) = "Blocking"
             THEN [sc |-> [sc EXCEPT !.calls = Tail(@), !.thread = "running"],
                   t |-> [t EXCEPT !.executed = @ + ran, !.replied = @ + 1]]
             ELSE [sc |-> [sc EXCEPT !.calls = Tail(@)],
                   t |-> [t EXCEPT !.executed = @ + ran]]

\* Subscript::try_join: Some result if the thread is finished
TryJoin(sc) == IF sc.thread = "finished" THEN Some(sc.id) ELSE None

\* the retain_mut of SubscriptManager::process over the scripts scs: what is kept,
\* the tallies and the results
RECURSIVE RetainMut(_, _, _)
RetainMut(scs, tl, on_sub_call) ==
    IF scs = <<>> THEN [scripts |-> <<>>, tally |-> tl, results |-> <<>>]
    ELSE LET h == HandleCalls(scs[1], tl[scs[1].id], on_sub_call)
             event == TryJoin(h.sc)
             t == IF event # None THEN [h.t EXCEPT !.dropped = Len(h.sc.calls)] ELSE h.t
             r == RetainMut(Tail(scs), [tl EXCEPT ![scs[1].id] = t], on_sub_call)
         IN  IF event # None
             THEN [r EXCEPT !.results = event \o @]
             ELSE [r EXCEPT !.scripts = <<h.sc>> \o @]

\* SubscriptManager::push: Subscript::new spawns the thread
SubPush ==
    /\ current_id < MaxScripts
    /\ current_id' = current_id + 1
    /\ scripts' = Append(scripts, [id |-> current_id, thread |-> "running", calls |-> <<>>])
    /\ UNCHANGED <<tally, results>>

\* the thread calls one of the functions set for its blocking_calls or its
\* nonblocking_calls: the message is sent, and after a Blocking one the thread
\* waits in rx_return.recv()
ThreadCalls ==
    \E i \in 1..Len(scripts), kind \in {"Blocking", "NonBlocking"} :
        /\ scripts[i].thread = "running"
        /\ tally[scripts[i].id].sent < MaxCalls
        /\ scripts' = [scripts EXCEPT ![i].calls = Append(@, kind),
                                      ![i].thread = IF kind = "Blocking" THEN "blocked"
                                                    ELSE @]
        /\ tally' = [tally EXCEPT ![scripts[i].id].sent = @ + 1,
                                  ![scripts[i].id].blocking =
                                      @ + IF kind = "Blocking" THEN 1 ELSE 0]
        /\ UNCHANGED <<current_id, results>>

\* the thread's closure returns, with the script's values or with an error
ThreadFinishes ==
    \E i \in 1..Len(scripts) :
        /\ scripts[i].thread = "running"
        /\ scripts' = [scripts EXCEPT ![i].thread = "finished"]
        /\ UNCHANGED <<current_id, tally, results>>

\* SubscriptManager::process
SubProcess ==
    \E on_sub_call \in {"ok", "fails", "missing"} :
        LET r == RetainMut(scripts, tally, on_sub_call)
        IN  /\ scripts' = r.scripts
            /\ tally' = r.tally
            /\ results' = r.results
            /\ UNCHANGED current_id

SubNext ==
    \/ SubPush
    \/ ThreadCalls
    \/ ThreadFinishes
    \/ SubProcess

----------------------------------------------------------------------------
(* WorkerPool and Worker (worker_pool.rs) *)

\* the size of the pool, and most jobs passed to execute
PoolSize == 2
MaxJobs == 3

WorkerIds == 1..PoolSize

\* the thread of the worker has ended
Ended(w) == w.state \in {"exited", "panicked"}

\* WorkerPool::new
PoolInit ==
    /\ sender = TRUE
    /\ job_queue = <<>>
    /\ queue_lock = 0
    /\ workers = [w \in WorkerIds |-> [state |-> "waiting", job |-> 0]]
    /\ pool_pc = "alive"
    /\ joined = 0
    /\ submitted = 0
    /\ job_runs = [j \in 1..MaxJobs |-> <<>>]

\* the workers after worker w has changed to nw; the Receiver is dropped, with the
\* jobs in the channel, when the last thread that holds it ends
SetWorker(w, nw) ==
    /\ workers' = [workers EXCEPT ![w] = nw]
    /\ job_queue' = IF \A v \in WorkerIds : Ended(workers'[v]) THEN <<>> ELSE job_queue

\* WorkerPool::execute: send(job).unwrap() panics if the Receiver is dropped
PoolExecute ==
    /\ pool_pc = "alive"
    /\ submitted < MaxJobs
    /\ submitted' = submitted + 1
    /\ IF \A w \in WorkerIds : Ended(workers[w])
       THEN pool_pc' = "panicked" /\ UNCHANGED job_queue
       ELSE job_queue' = Append(job_queue, submitted + 1) /\ UNCHANGED pool_pc
    /\ UNCHANGED <<sender, queue_lock, workers, joined, job_runs>>

\* Worker::new, the thread's loop: receiver.lock()
WorkerLock ==
    \E w \in WorkerIds :
        /\ workers[w].state = "waiting"
        /\ queue_lock = 0
        /\ queue_lock' = w
        /\ workers' = [workers EXCEPT ![w].state = "recv"]
        /\ UNCHANGED <<sender, job_queue, pool_pc, joined, submitted, job_runs>>

\* recv() returns, and the guard of the lock is dropped at the end of the let
\* statement: with a job, or with Err once the channel is empty and the sender
\* dropped. lock_after is the holder of the lock from then on
WorkerRecvTo(w, lock_after) ==
    /\ workers[w].state = "recv"
    /\ queue_lock' = lock_after
    /\ IF job_queue # <<>>
       THEN /\ workers' = [workers EXCEPT ![w] = [state |-> "job", job |-> Head(job_queue)]]
            /\ job_queue' = Tail(job_queue)
       ELSE /\ ~sender
            /\ SetWorker(w, [state |-> "exited", job |-> 0])
    /\ UNCHANGED <<sender, pool_pc, joined, submitted, job_runs>>

WorkerRecv == \E w \in WorkerIds : WorkerRecvTo(w, 0)

\* job() returns, or panics and ends the thread
PoolJobEnds ==
    \E w \in WorkerIds, outcome \in {"returns", "panics"} :
        /\ workers[w].state = "job"
        /\ job_runs' = [job_runs EXCEPT ![workers[w].job] = Append(@, <<w, outcome>>)]
        /\ SetWorker(w, [state |-> IF outcome = "returns" THEN "waiting" ELSE "panicked",
                         job |-> 0])
        /\ UNCHANGED <<sender, queue_lock, pool_pc, joined, submitted>>

\* WorkerPool::drop: drop(self.sender.take())
PoolDrop ==
    /\ pool_pc = "alive"
    /\ pool_pc' = "joining"
    /\ sender' = FALSE
    /\ UNCHANGED <<job_queue, queue_lock, workers, joined, submitted, job_runs>>

\* WorkerPool::drop: thread.join().unwrap() of the next worker, which panics if
\* the thread has
PoolJoin ==
    /\ pool_pc = "joining"
    /\ Ended(workers[joined + 1])
    /\ IF workers[joined + 1].state = "panicked"
       THEN pool_pc' = "panicked" /\ UNCHANGED joined
       ELSE /\ joined' = joined + 1
            /\ pool_pc' = IF joined' = PoolSize THEN "dropped" ELSE "joining"
    /\ UNCHANGED <<sender, job_queue, queue_lock, workers, submitted, job_runs>>

PoolNext ==
    \/ PoolExecute
    \/ WorkerLock
    \/ WorkerRecv
    \/ PoolJobEnds
    \/ PoolDrop
    \/ PoolJoin

----------------------------------------------------------------------------
(* http_get_with_backoff (installer.rs) *)

MAX_ATTEMPTS == 6

\* seconds that the server's headers ask to wait: less and more than any backoff
HeaderWaits == {1, 120}

\* what the server answers: no answer (a transport error), or a status, which for
\* 403 and 429 comes with the wait that the rate limit headers give, if they give one
Answers ==
    {[kind |-> "transport", status |-> 0, header_wait |-> None]}
        \cup {[kind |-> "status", status |-> st, header_wait |-> None] :
                  st \in {200, 304, 403, 404, 429, 500}}
        \cup {[kind |-> "status", status |-> st, header_wait |-> Some(w)] :
                  st \in {403, 429}, w \in HeaderWaits}

\* ureq's call(): Err for a transport error, and for a status of 400 and above if
\* the agent's http_status_as_error is set; else Ok of the response
Call(answer, status_as_error) ==
    IF answer.kind = "transport" \/ (status_as_error /\ answer.status >= 400)
    THEN [ok |-> FALSE, status |-> 0, header_wait |-> None]
    ELSE [ok |-> TRUE, status |-> answer.status, header_wait |-> answer.header_wait]

\* (backoff_secs * 2).min(60)
NextBackoff(backoff_secs) == IF backoff_secs * 2 < 60 THEN backoff_secs * 2 ELSE 60

HttpInit ==
    http = [pc |-> "idle", attempt |-> 0, backoff_secs |-> 2, result |-> None,
            status_as_error |-> TRUE, last |-> None, slept |-> <<>>]

\* the call of http_get_with_backoff(url), up to the loop
HttpGet ==
    /\ http.pc # "loop"
    /\ \E status_as_error \in BOOLEAN :
          http' = [pc |-> "loop", attempt |-> 0, backoff_secs |-> 2, result |-> None,
                   status_as_error |-> status_as_error, last |-> None, slept |-> <<>>]

\* one pass of the loop: the request, and the return or the sleep before the next
HttpAttempt ==
    /\ http.pc = "loop"
    /\ \E answer \in Answers :
        LET attempt == http.attempt + 1
            resp == Call(answer, http.status_as_error)
            wait == IF resp.ok /\ resp.header_wait # None THEN resp.header_wait[1]
                    ELSE http.backoff_secs
            retried == ~resp.ok \/ resp.status \in {403, 429}
            tried == [http EXCEPT !.attempt = attempt, !.last = Some(answer)]
        IN  http' =
                IF retried
                THEN IF attempt >= MAX_ATTEMPTS
                     THEN [tried EXCEPT !.pc = "returned", !.result = Some("Err")]
                     ELSE [tried EXCEPT !.slept = Append(@, wait),
                                        !.backoff_secs = NextBackoff(@)]
                ELSE IF resp.status >= 400
                THEN [tried EXCEPT !.pc = "returned", !.result = Some("Err")]
                ELSE [tried EXCEPT !.pc = "returned", !.result = Some("Ok")]

HttpNext == HttpGet \/ HttpAttempt

AppInit ==
    /\ previous_layers_hash = 0
    /\ force_render = TRUE
    /\ textures_delta = TextureManagerNew
    /\ appPc = "idle"
    /\ issued = <<>>
    /\ atlasModified = FALSE
    /\ frameOut = None
    /\ gfx_context = None
    /\ needs_reconfigure = TRUE
    /\ window = [is_focused |-> TRUE, is_hovered |-> TRUE, size |-> <<0, 0>>]
    /\ presented = None
    /\ TexInit
    /\ SubInit
    /\ PoolInit
    /\ HttpInit

\* the jobs that the frame handler draws as text
AppQueries == {[job |-> j, pixels_per_point |-> 1] : j \in {JobA, JobC}}

\* App::frame up to the Lua frame handler: fonts.begin_frame, then PoBMode::frame
\* resets the layers and sets the viewport to the window
\* LogicalRect::from_size(window.logical_size()), at scale factor 1; the frames
\* of the application on its own, whose window is not created, take WindowRect
FullWindow ==
    IF gfx_context = None THEN WindowRect
    ELSE MkRect(0, 0, window.size[1], window.size[2])

FrameBeginNoReset ==
    /\ appPc' = "mode_frame"
    /\ \E G \in {FontsBeginFrame(FontsState)} : SetFonts(G)
    /\ added' = <<>>
    /\ stream' = <<>>
    /\ streamLog' = <<>>
    /\ lop' = "other"
    /\ issued' = <<>>
    /\ atlasModified' = (regions' # regions)
    /\ UNCHANGED <<current_layer, layers, current_draw_color, viewport,
                   tessVars, atlasDelta, age, streak, lastRet, lastCall, fop, beginSnap,
                   previous_layers_hash, textures_delta, frameOut>>
FrameBegin ==
    /\ appPc' = "mode_frame"
    /\ \E G \in {FontsBeginFrame(FontsState)} : SetFonts(G)
    /\ current_layer' = <<0, 0>>
    /\ layers' = EmptyLayers
    /\ current_draw_color' = TRANSPARENT
    /\ viewport' = FullWindow
    /\ added' = <<>>
    /\ stream' = <<>>
    /\ streamLog' = <<>>
    /\ lop' = "other"
    /\ issued' = <<>>
    /\ atlasModified' = (regions' # regions)
    /\ UNCHANGED <<tessVars, atlasDelta, age, streak, lastRet, lastCall, fop, beginSnap,
                   previous_layers_hash, textures_delta, frameOut>>

AppFrameBegin ==
    /\ appPc = "idle"
    /\ FrameBegin
    /\ UNCHANGED force_render

\* the frame handler calls DrawImage
AppDrawImage ==
    /\ appPc = "mode_frame"
    /\ \E rect \in RectVals : DrawRectCall(Some(5), rect)
    /\ issued' = Append(issued, [key |-> current_layer,
                                 clip_rect |-> viewport,
                                 call |-> added'[Len(added')].prim.primitive])
    /\ UNCHANGED <<tessVars, atlasVars, fontVars, previous_layers_hash, force_render,
                   textures_delta, appPc, atlasModified, frameOut>>

\* the frame handler calls DrawString: the draw color becomes that of the job's last
\* segment, and the text is laid out and pushed
AppDrawString ==
    /\ appPc = "mode_frame"
    /\ Len(added) < MaxPrims
    /\ \E q \in AppQueries, position \in TextPosVals :
        \E r \in {FontsLayout(FontsState, q.job, q.pixels_per_point, FreshId)} :
            /\ SetFonts(r.F)
            /\ Push([clip_rect |-> viewport, primitive |-> TextPrim(position, r.layout, FALSE)],
                    position, FALSE)
            /\ issued' = Append(issued, [key |-> current_layer,
                                         clip_rect |-> viewport,
                                         call |-> [kind |-> "Text", pos |-> position,
                                                   query |-> q]])
            /\ atlasModified' = (atlasModified \/ r.F.regions # regions)
            /\ current_draw_color' =
                   IF q.job.segments = <<>> THEN current_draw_color
                   ELSE q.job.segments[Len(q.job.segments)].color
    /\ lop' = "other"
    /\ UNCHANGED <<current_layer, viewport, tessVars, atlasDelta,
                   age, streak, lastRet, lastCall, fop, beginSnap, previous_layers_hash,
                   force_render, textures_delta, appPc, frameOut>>

\* the rest of PoBMode::frame and App::frame, and the render of its output: the
\* content hash is compared and stored, the layers are consumed, the atlas delta
\* goes to the texture manager, whose delta is taken, and the render job is chosen
ChooseSkipIgnoringDelta(can_elide, delta, force) == can_elide /\ ~force
ChooseSkip(can_elide, delta, force) == can_elide /\ DeltaIsEmpty(delta) /\ ~force
FrameEnd ==
    LET layers_hash == GetHash(layers)
        identical == layers_hash = previous_layers_hash
        primitives == IntoValuesFlatten(layers)
        font_atlas_size == AtlasSize(atlas)
        taken == IF atlas.dirty
                 THEN TextureSet(textures_delta, DefaultTextureId, [size |-> AtlasSize(atlas)])
                 ELSE textures_delta
        skip == ChooseSkip(identical, taken, force_render)
    IN  /\ previous_layers_hash' = layers_hash
        /\ ConsumeLayers
        /\ atlasDelta' = IF atlas.dirty THEN Some([size |-> AtlasSize(atlas)]) ELSE None
        /\ atlas' = [atlas EXCEPT !.dirty = FALSE]
        /\ textures_delta' = [update |-> <<>>, free |-> <<>>]
        /\ last_clipped_meshes_size' =
               IF skip THEN last_clipped_meshes_size
               ELSE Len(ConvertClippedPrimitives(primitives, font_atlas_size, <<>>))
        /\ frameOut' = Some([render_job |->
                                 IF skip THEN [kind |-> "Skip"]
                                 ELSE [kind |-> "Render",
                                       meshes |-> ConvertClippedPrimitives(
                                                      primitives, font_atlas_size, <<>>),
                                       textures_delta |-> taken],
                             can_elide |-> identical,
                             hash |-> layers_hash,
                             issued |-> issued,
                             taken |-> taken,
                             forced |-> force_render,
                             atlasModified |-> atlasModified,
                             atlas_size |-> font_atlas_size,
                             settings |-> <<current_layer, viewport, current_draw_color>>,
                             delta_size |-> IF atlas.dirty THEN Some(AtlasSize(atlas))
                                            ELSE IF frameOut = None THEN None
                                            ELSE frameOut[1].delta_size,
                             first |-> frameOut = None,
                             same_calls |-> frameOut # None /\ frameOut[1].issued = issued])

\* with a surface that is configured and whose texture is acquired: the render
\* returns Ok and force_render becomes should_continue
AppFrameEnd(should_continue) ==
    /\ FrameEnd
    /\ force_render' = should_continue

AppFrameEndCall ==
    /\ appPc = "mode_frame"
    /\ appPc' = "idle"
    /\ \E should_continue \in BOOLEAN : AppFrameEnd(should_continue)
    /\ issued' = <<>>
    /\ atlasModified' = FALSE
    /\ UNCHANGED <<regions, reqArea, glyph_rasterizer, layout_cache, age, streak, lastRet,
                   lastCall, fop, beginSnap, clipped_meshes, tessPc, tessLog>>

\* window_event: a resize or a lost surface makes the next redraw reconfigure the
\* surface and force a render
AppReconfigure ==
    /\ appPc = "idle"
    /\ ~force_render
    /\ force_render' = TRUE
    /\ UNCHANGED <<layerVars, tessVars, atlasVars, fontVars, previous_layers_hash,
                   textures_delta, appPc, issued, atlasModified, frameOut>>

\* a texture finishes loading between two frames: TextureManager::set queues it
AppTextureLoaded ==
    /\ appPc = "idle"
    /\ DeltaIsEmpty(textures_delta)
    /\ textures_delta' = TextureSet(textures_delta, 5, [size |-> <<2, 2>>])
    /\ UNCHANGED <<layerVars, tessVars, atlasVars, fontVars, previous_layers_hash,
                   force_render, appPc, issued, atlasModified, frameOut>>

AppNext ==
    \/ AppFrameBegin
    \/ AppDrawImage
    \/ AppDrawString
    \/ AppFrameEndCall
    \/ AppReconfigure
    \/ AppTextureLoaded

----------------------------------------------------------------------------
(* App::window_event and GraphicsContext (app.rs, gfx.rs) *)

\* inner sizes of the window: minimised, or the window rect
SizeVals == {<<0, 0>>, WindowRect.max}

\* results of Surface::get_current_texture: a texture, a suboptimal texture, or a
\* SurfaceError ("Timeout" also stands for OutOfMemory and Other, which
\* window_event handles alike)
AcquireVals == {"Ok", "Suboptimal", "Timeout", "Outdated", "Lost"}

\* Renderer::update_textures: every update of the delta is written to the texture
\* of its id, which is created if the renderer has none
RECURSIVE UpdateTextures(_, _)
UpdateTextures(textures, update) ==
    IF update = <<>> THEN textures
    ELSE UpdateTextures(MapPut(textures, update[1].id, update[1].delta), Tail(update))

\* Renderer::free_textures: the textures of the freed ids are removed and destroyed
FreeTextures(textures, free) ==
    [id \in DOMAIN textures \ {free[i] : i \in 1..Len(free)} |-> textures[id]]

\* the texture ids of the meshes of a render job
MeshTextures(meshes) == {meshes[i].mesh.texture_id : i \in 1..Len(meshes)}

\* GraphicsContext::new; textures are those of its Renderer
GfxNew == [is_surface_configured |-> FALSE, blit_texture |-> None, textures |-> EmptyMap]

\* GraphicsContext::resize: the blit texture is created anew
GfxResize(gfx, size) ==
    IF size[1] > 0 /\ size[2] > 0
    THEN [gfx EXCEPT !.is_surface_configured = TRUE, !.blit_texture = None]
    ELSE gfx

\* GraphicsContext::render of a job whose Render variant draws `frame`; shown is
\* Some of the blit texture copied to the surface and presented, if any was.
\* applied tells whether the job's textures delta went to the renderer; bound are
\* the textures that the renderer had when the draw calls were recorded, and
\* destroyed those that free_textures destroyed before the commands were submitted
GfxRender(gfx, render_job, frame, acquire) ==
    LET idle == [applied |-> FALSE, bound |-> {}, destroyed |-> {}]
    IN
    IF ~gfx.is_surface_configured
    THEN [gfx |-> gfx, result |-> "Ok", shown |-> None] @@ idle
    ELSE IF acquire \notin {"Ok", "Suboptimal"}
    THEN [gfx |-> gfx, result |-> acquire, shown |-> None] @@ idle
    ELSE IF render_job.kind = "Render"
    THEN LET uploaded == UpdateTextures(gfx.textures, render_job.textures_delta.update)
             kept == FreeTextures(uploaded, render_job.textures_delta.free)
         IN  [gfx |-> [gfx EXCEPT !.blit_texture = Some(frame), !.textures = kept],
              result |-> IF acquire = "Suboptimal" THEN "Outdated" ELSE "Ok",
              shown |-> Some(Some(frame)),
              applied |-> TRUE,
              bound |-> DOMAIN uploaded,
              destroyed |-> DOMAIN uploaded \ DOMAIN kept]
    ELSE [gfx |-> gfx,
          result |-> IF acquire = "Suboptimal" THEN "Outdated" ELSE "Ok",
          shown |-> Some(gfx.blit_texture)] @@ idle

\* ApplicationHandler::resumed: create_window
Resumed ==
    /\ appPc = "idle"
    /\ gfx_context = None
    /\ gfx_context' = Some(GfxNew)
    /\ \E size \in SizeVals : window' = [window EXCEPT !.size = size]
    /\ UNCHANGED <<layerVars, tessVars, atlasVars, fontVars, previous_layers_hash,
                   force_render, textures_delta, appPc, issued, atlasModified, frameOut,
                   needs_reconfigure, presented>>

\* WindowEvent::Resized
Resized ==
    /\ appPc = "idle"
    /\ gfx_context # None
    /\ \E size \in SizeVals : window' = [window EXCEPT !.size = size]
    /\ needs_reconfigure' = TRUE
    /\ UNCHANGED <<layerVars, tessVars, atlasVars, fontVars, previous_layers_hash,
                   force_render, textures_delta, appPc, issued, atlasModified, frameOut,
                   gfx_context, presented>>

\* WindowEvent::Focused
Focused ==
    /\ appPc = "idle"
    /\ gfx_context # None
    /\ \E focused \in BOOLEAN : window' = [window EXCEPT !.is_focused = focused]
    /\ UNCHANGED <<layerVars, tessVars, atlasVars, fontVars, previous_layers_hash,
                   force_render, textures_delta, appPc, issued, atlasModified, frameOut,
                   gfx_context, needs_reconfigure, presented>>

\* WindowEvent::CursorEntered and WindowEvent::CursorLeft
CursorEnteredOrLeft ==
    /\ appPc = "idle"
    /\ gfx_context # None
    /\ \E hovered \in BOOLEAN : window' = [window EXCEPT !.is_hovered = hovered]
    /\ UNCHANGED <<layerVars, tessVars, atlasVars, fontVars, previous_layers_hash,
                   force_render, textures_delta, appPc, issued, atlasModified, frameOut,
                   gfx_context, needs_reconfigure, presented>>

\* WindowEvent::RedrawRequested up to the Lua frame handler: the surface is
\* reconfigured if that is due, and unless the window is neither focused nor
\* hovered nor a render forced, the frame begins
RedrawRequestedBegin ==
    /\ appPc = "idle"
    /\ gfx_context # None
    /\ gfx_context' = IF needs_reconfigure
                      THEN Some(GfxResize(gfx_context[1], window.size))
                      ELSE gfx_context
    /\ needs_reconfigure' = FALSE
    /\ force_render' = (needs_reconfigure \/ force_render)
    /\ IF window.is_focused \/ window.is_hovered \/ force_render'
       THEN FrameBegin
       ELSE UNCHANGED <<layerVars, tessVars, atlasVars, fontVars, previous_layers_hash,
                        textures_delta, appPc, issued, atlasModified, frameOut>>
    /\ UNCHANGED <<window, presented>>

\* the rest of WindowEvent::RedrawRequested: the rest of App::frame, the render of
\* its job and the handling of the render's result
RedrawRequestedEnd ==
    /\ appPc = "mode_frame"
    /\ appPc' = "idle"
    /\ FrameEnd
    /\ \E should_continue \in BOOLEAN, acquire \in AcquireVals :
        LET out == frameOut'[1]
            frame == [hash |-> out.hash, meshes |-> out.render_job.meshes]
            r == GfxRender(gfx_context[1], out.render_job, frame, acquire)
        IN  /\ gfx_context' = Some(r.gfx)
            /\ force_render' = IF r.result = "Ok" THEN should_continue ELSE force_render
            /\ needs_reconfigure' = (needs_reconfigure \/ r.result \in {"Lost", "Outdated"})
            /\ presented' = Some([job |-> out.render_job.kind, hash |-> out.hash,
                                  result |-> r.result, shown |-> r.shown,
                                  applied |-> r.applied, bound |-> r.bound,
                                  destroyed |-> r.destroyed,
                                  basis_shown |-> presented # None
                                                  /\ presented[1].shown # None])
    /\ issued' = <<>>
    /\ atlasModified' = FALSE
    /\ UNCHANGED <<regions, reqArea, glyph_rasterizer, layout_cache, age, streak, lastRet,
                   lastCall, fop, beginSnap, clipped_meshes, tessPc, tessLog, window>>

RedrawNext ==
    \/ Resumed
    \/ Resized
    \/ Focused
    \/ CursorEnteredOrLeft
    \/ RedrawRequestedBegin
    \/ AppDrawImage /\ UNCHANGED gfxVars
    \/ RedrawRequestedEnd

----------------------------------------------------------------------------
(* Specifications *)

\* the application after construction: Fonts::new has preloaded its glyphs
Init == LayersInit /\ TessInit /\ FontsInit /\ AppInit

\* the parts on their own: a Layers, a Tessellator and a FontAtlas right after
\* their construction, with no glyph or layout cached
InitParts ==
    /\ LayersInit /\ TessInit /\ AtlasInit /\ FontHistoryInit /\ AppInit
    /\ glyph_rasterizer = GlyphRasterizerNew
    /\ layout_cache = LayoutCacheDefault

SpecLayers ==
    InitParts /\ [][LayersNext /\ UNCHANGED <<tessVars, atlasVars, fontVars, appVars, extVars>>]_vars

SpecTess ==
    InitParts /\ [][TessNext /\ UNCHANGED <<layerVars, atlasVars, fontVars, appVars, extVars>>]_vars

SpecAtlas ==
    InitParts /\ [][AtlasNext /\ UNCHANGED <<layerVars, tessVars, fontVars, appVars, extVars>>]_vars

SpecDelta ==
    InitParts /\ [][DeltaNext /\ UNCHANGED <<layerVars, tessVars, appVars, glyph_rasterizer,
                                             layout_cache, age, streak, lastRet,
                                             beginSnap, extVars>>]_vars

SpecFonts == Init /\ [][FontsNext /\ UNCHANGED <<layerVars, tessVars, appVars, extVars>>]_vars

SpecRaster ==
    InitParts /\ [][RasterNext /\ UNCHANGED <<layerVars, tessVars, appVars, extVars>>]_vars

(* FontAtlas::new with other arguments than that of Fonts::new *)

\* values of max_texture_side: below the initial height, between two doublings of
\* it, and two doublings of it
SideVals == {200, 700, 1000, 1024}

SidesInit ==
    /\ LayersInit /\ TessInit /\ FontHistoryInit /\ AppInit
    /\ glyph_rasterizer = GlyphRasterizerNew
    /\ layout_cache = LayoutCacheDefault
    /\ \E max_texture_side \in SideVals :
          /\ atlas = AtlasNew(max_texture_side).atlas
          /\ regions = <<AtlasNew(max_texture_side).region>>
    /\ reqArea = 1
    /\ atlasDelta = None

\* allocate with a size no wider than the atlas
SidesAllocate ==
    /\ AtlasAllocateCall
    /\ regions'[Len(regions')].max[1] - regions'[Len(regions')].min[1] <= atlas.width

SidesNext == SidesAllocate \/ AtlasClearCall \/ AtlasTakeDeltaCall

SpecSides ==
    SidesInit /\ [][SidesNext /\ UNCHANGED <<layerVars, tessVars, fontVars, appVars, extVars>>]_vars

(* calls of SubpixelBin::new *)

\* largest bin count, and largest position (in hundredths) of either sign
MaxBins == 4
MaxPosition == 350

\* the bin count and the position of the call to come
BinInit ==
    /\ LayersInit /\ TessInit /\ AtlasInit /\ AppInit
    /\ glyph_rasterizer = GlyphRasterizerNew
    /\ layout_cache = LayoutCacheDefault
    /\ age = [q \in Queries |-> -1]
    /\ streak = [q \in Queries |-> FALSE]
    /\ lastRet = [q \in Queries |-> None]
    /\ \E num_of_bins \in 1..MaxBins, position100 \in (-MaxPosition)..MaxPosition :
          lastCall = Some([num_of_bins |-> num_of_bins, position100 |-> position100,
                           out |-> None])
    /\ fop = "new"
    /\ beginSnap = None

\* the call SubpixelBin::<num_of_bins>::new(position)
SubpixelBinNewCall ==
    /\ fop = "new"
    /\ lastCall' = Some([lastCall[1] EXCEPT
                            !.out = SubpixelBinNewOf(lastCall[1].num_of_bins,
                                                     lastCall[1].position100)])
    /\ fop' = "subpixel_bin_new"
    /\ UNCHANGED <<atlasVars, glyph_rasterizer, layout_cache, age, streak, lastRet,
                   beginSnap>>

BinNext == SubpixelBinNewCall

SpecBin ==
    BinInit /\ [][BinNext /\ UNCHANGED <<layerVars, tessVars, appVars, extVars>>]_vars

SpecApp == Init /\ [][AppNext /\ UNCHANGED <<gfxVars, extVars>>]_vars

SpecRedraw == Init /\ [][RedrawNext /\ UNCHANGED extVars]_vars

\* the TextureManager, its handles and its worker jobs
SpecTextures ==
    InitParts /\ [][TexNext /\ UNCHANGED <<layerVars, tessVars, atlasVars, fontVars,
                                          previous_layers_hash, force_render, appPc, issued,
                                          atlasModified, frameOut, gfxVars, restVars>>]_vars

(* redraws of a window that stays focused and keeps its size, with textures that
   the frame handler loads, draws and drops *)

\* most images that the frame handler loads
MaxImages == 1

\* what the texture manager's calls leave alone
AppButDelta ==
    <<layerVars, tessVars, atlasVars, fontVars, previous_layers_hash, force_render, appPc,
      issued, atlasModified, frameOut, gfxVars, restVars>>

\* the frame handler calls DrawImage with an image handle that is loaded
GpuDrawImage ==
    /\ appPc = "mode_frame"
    /\ \E id \in 1..MaxTextures, rect \in RectVals :
          /\ handles[id] > 0
          /\ DrawRectCall(Some(id), rect)
    /\ issued' = Append(issued, [key |-> current_layer,
                                 clip_rect |-> viewport,
                                 call |-> added'[Len(added')].prim.primitive])
    /\ UNCHANGED <<tessVars, atlasVars, fontVars, previous_layers_hash, force_render,
                   textures_delta, appPc, atlasModified, frameOut, gfxVars, extVars>>

\* the frame handler loads an image, or drops an image handle
GpuLoadImage ==
    /\ appPc = "mode_frame"
    /\ next_id <= MaxImages
    /\ LoadTextureSync
    /\ UNCHANGED AppButDelta
GpuDropImage == appPc = "mode_frame" /\ HandleDrop /\ UNCHANGED AppButDelta

GpuNext ==
    \/ Resumed /\ UNCHANGED extVars
    \/ RedrawRequestedBegin /\ UNCHANGED extVars
    \/ GpuLoadImage
    \/ GpuDrawImage
    \/ GpuDropImage
    \/ RedrawRequestedEnd /\ UNCHANGED extVars

SpecGpu == Init /\ [][GpuNext]_vars

(* frames whose Lua handlers, that of the frame and those of the events between
   two frames, use the Layers API: each handler draws at most once, and sets the
   layer key and the viewport to one value other than that of the reset *)

NotLayers == <<tessVars, atlasVars, fontVars, appVars, extVars>>

FramesNext ==
    \/ AppFrameBegin /\ UNCHANGED <<gfxVars, extVars>>
    \/ SetViewport /\ viewport' = SubViewport /\ UNCHANGED NotLayers
    \/ SetDrawLayer /\ current_layer' = <<-1, 1>> /\ UNCHANGED NotLayers
    \/ SetDrawColor /\ UNCHANGED NotLayers
    \/ DrawRect /\ added = <<>> /\ UNCHANGED NotLayers
    \/ AppFrameEndCall /\ UNCHANGED <<gfxVars, extVars>>

SpecFrames == Init /\ [][FramesNext]_vars

\* the subscripts, their threads and the calls of process
coreVars == <<layerVars, tessVars, atlasVars, fontVars, appVars, texVars>>

SpecSub == InitParts /\ [][SubNext /\ UNCHANGED <<coreVars, poolVars, http>>]_vars

\* process keeps being called: PoBMode::frame calls it in every frame
SpecSubFair == SpecSub /\ WF_vars(SubProcess /\ UNCHANGED <<coreVars, poolVars, http>>)

\* the worker pool, its owner and its worker threads
SpecPool == InitParts /\ [][PoolNext /\ UNCHANGED <<coreVars, subVars, http>>]_vars

\* calls of http_get_with_backoff
SpecHttp == InitParts /\ [][HttpNext /\ UNCHANGED <<coreVars, subVars, poolVars>>]_vars

----------------------------------------------------------------------------
(* C1 *)

AllKeys == LayerVals \X SublayerVals

\* the primitives of a push log that went to bucket k, in push order
PrimsOfKey(log, k) ==
    LET sel == SelectSeq(log, LAMBDA e : e.key = k)
    IN  [i \in 1..Len(sel) |-> sel[i].prim]

\* keys of S in ascending (layer, sublayer) order
RECURSIVE AscendingKeys(_)
AscendingKeys(S) ==
    IF S = {} THEN <<>>
    ELSE LET lo == CHOOSE k \in S : \A o \in S :
                       k[1] < o[1] \/ (k[1] = o[1] /\ k[2] <= o[2])
         IN  <<lo>> \o AscendingKeys(S \ {lo})

RECURSIVE ConcatBuckets(_, _)
ConcatBuckets(log, ks) ==
    IF ks = <<>> THEN <<>>
    ELSE PrimsOfKey(log, Head(ks)) \o ConcatBuckets(log, Tail(ks))

\* C1: the stream returned by consume_layers holds exactly the primitives pushed
\* since the last reset/consume, each once, by ascending (layer, sublayer) key and
\* in push order within a key; with nothing pushed the stream is empty.
C1_ConsumeOrder ==
    lop = "consume_layers" =>
        /\ stream = ConcatBuckets(streamLog, AscendingKeys(AllKeys))
        /\ Len(stream) = Len(streamLog)
        /\ (streamLog = <<>> => stream = <<>>)
        /\ layers = EmptyLayers

\* a consume that had to reorder: a primitive pushed later under a smaller key with
\* a negative layer, next to a bucket holding two primitives in push order
C1_Witness ==
    /\ lop = "consume_layers"
    /\ Len(streamLog) = 2
    /\ streamLog[2].key[1] < 0
    /\ streamLog[1].key = <<0, 0>>
    /\ stream[1] = streamLog[2].prim
    /\ stream[1] # stream[2]

----------------------------------------------------------------------------
(* C2 *)

\* positions of the log whose primitive added geometry
Contributing == {i \in 1..Len(tessLog) : tessLog[i].contributed}

\* i and j are consecutive among the geometry-contributing primitives
ConsecutiveContrib(i, j) ==
    /\ i \in Contributing /\ j \in Contributing /\ i < j
    /\ \A k \in Contributing : ~(i < k /\ k < j)

SameClipAndTexture(a, b) ==
    /\ a.clip_rect = b.clip_rect
    /\ PrimTextureId(a.primitive) = PrimTextureId(b.primitive)

ExampleStream ==
    <<TexRect(ClipA, Some(5)), TexRect(ClipA, Some(5)),
      TexRect(ClipA, Some(6)), TexRect(ClipB, Some(6))>>

\* C2: two consecutive geometry-contributing primitives share a batch iff they have
\* the same clip rect and texture id; no two neighbouring batches share both; the
\* stream [Rect(A,X), Rect(A,X), Rect(A,Y), Rect(B,Y)] gives 3 batches in that order,
\* the first holding both Rect(A,X).
C2_BatchBoundaries ==
    /\ \A i, j \in 1..Len(tessLog) :
          ConsecutiveContrib(i, j) =>
              ((tessLog[i].batch = tessLog[j].batch)
                  <=> SameClipAndTexture(tessLog[i].prim, tessLog[j].prim))
    /\ \A k \in 1..(Len(clipped_meshes) - 1) :
          ~(/\ clipped_meshes[k].clip_rect = clipped_meshes[k + 1].clip_rect
            /\ clipped_meshes[k].mesh.texture_id = clipped_meshes[k + 1].mesh.texture_id)
    /\ [i \in 1..Len(tessLog) |-> tessLog[i].prim] = ExampleStream =>
          /\ Len(clipped_meshes) = 3
          /\ [k \in 1..3 |-> <<clipped_meshes[k].clip_rect, clipped_meshes[k].mesh.texture_id>>]
                = <<<<ClipA, 5>>, <<ClipA, 6>>, <<ClipB, 6>>>>
          /\ Len(clipped_meshes[1].mesh.vertices) = 8
          /\ [i \in 1..4 |-> tessLog[i].batch] = <<1, 1, 2, 3>>

\* the example stream was converted, and so was a stream in which a dropped
\* primitive sits between two primitives that merge
C2_Witness ==
    /\ tessPc = "idle"
    /\ [i \in 1..Len(tessLog) |-> tessLog[i].prim] = ExampleStream
    /\ Len(clipped_meshes) = 3

C2_WitnessMerge ==
    /\ Len(tessLog) = 3
    /\ tessLog[1].contributed /\ ~tessLog[2].contributed /\ tessLog[3].contributed
    /\ tessLog[1].batch = tessLog[3].batch
    /\ tessLog[2].prim.primitive.kind = "Text"

----------------------------------------------------------------------------
(* C3 *)

\* two regions share at least one pixel
Intersect(r, q) ==
    /\ r.min[1] < q.max[1] /\ q.min[1] < r.max[1]
    /\ r.min[2] < q.max[2] /\ q.min[2] < r.max[2]

NoTwoRegionsIntersect ==
    \A i, j \in 1..Len(regions) : i < j => ~Intersect(regions[i], regions[j])

\* C3 as stated: while the total requested area stays under
\* max_texture_side x max_texture_side, no two returned regions intersect.
C3_AreaUnderCapacity ==
    reqArea < atlas.max_texture_side * atlas.max_texture_side => NoTwoRegionsIntersect

\* C3 as amended: while no allocate call since new()/clear() has marked the atlas
\* overflowed, no two returned regions intersect.
C3_NoOverlapUntilOverflow ==
    ~atlas.overflowed => NoTwoRegionsIntersect

\* three glyph regions in two rows of a grown bitmap, none overflowed
C3_Witness ==
    /\ ~atlas.overflowed
    /\ Len(regions) = 4
    /\ regions[4].min[2] > regions[2].min[2]
    /\ regions[3].min[2] = regions[2].min[2]
    /\ atlas.height > InitialHeight

----------------------------------------------------------------------------
(* C4 *)

\* the frame handler drew a text in the frame that frameOut describes
DrewText(out) == \E i \in 1..Len(out.issued) : out.issued[i].call.kind = "Text"

\* C4: when a frame issued the same draw calls, in the same order, under the same
\* layer keys and clip rects as the frame before it, the content hash computed for it
\* equals the hash of the frame before, the frame is reported identical, and when
\* the texture delta taken in the frame is empty and no render is forced the render
\* job is Skip.
C4_IdenticalFramesElide ==
    [][(AppFrameEndCall /\ frameOut # None /\ issued = frameOut[1].issued) =>
        /\ GetHash(layers) = frameOut[1].hash
        /\ frameOut'[1].hash = frameOut[1].hash
        /\ frameOut'[1].can_elide
        /\ (DeltaIsEmpty(frameOut'[1].taken) /\ ~force_render) =>
               frameOut'[1].render_job.kind = "Skip"]_vars

\* a frame that repeated the calls of the frame before it, a text among them, and
\* was skipped
C4_Witness ==
    /\ frameOut # None
    /\ frameOut[1].same_calls
    /\ DrewText(frameOut[1])
    /\ frameOut[1].can_elide
    /\ frameOut[1].render_job.kind = "Skip"

----------------------------------------------------------------------------
(* C5 *)

\* the font atlas texture is among the updates of a texture delta
HasAtlasUpdate(d) == \E i \in 1..Len(d.update) : d.update[i].id = DefaultTextureId

\* C5: a frame is skipped only if there was a frame before it, its content hash
\* equals the hash of that frame, the texture delta taken in the frame is empty
\* and the font atlas was not modified during the frame; a modification of the
\* atlas during the frame puts the atlas texture into the taken delta; a frame that
\* is not skipped gives a Render job with the meshes tessellated from the frame's
\* primitive stream and the taken delta.
C5_SkipOnlyIfUnchanged ==
    [][AppFrameEndCall =>
        /\ atlasModified => HasAtlasUpdate(frameOut'[1].taken)
        /\ IF frameOut'[1].render_job.kind = "Skip"
           THEN /\ frameOut # None
                /\ GetHash(layers) = frameOut[1].hash
                /\ DeltaIsEmpty(frameOut'[1].taken)
                /\ ~atlasModified
                /\ textures_delta = [update |-> <<>>, free |-> <<>>]
           ELSE /\ frameOut'[1].render_job.kind = "Render"
                /\ frameOut'[1].render_job.meshes =
                       ConvertClippedPrimitives(IntoValuesFlatten(layers),
                                                AtlasSize(atlas), <<>>)
                /\ frameOut'[1].render_job.textures_delta = frameOut'[1].taken
                /\ (~DeltaIsEmpty(textures_delta) \/ atlasModified) =>
                       ~DeltaIsEmpty(frameOut'[1].render_job.textures_delta)]_vars

\* a frame that repeated the calls of the frame before it and was not forced, but
\* was rendered because the font atlas was modified during the frame
C5_Witness ==
    /\ frameOut # None
    /\ frameOut[1].same_calls
    /\ frameOut[1].can_elide
    /\ ~frameOut[1].forced
    /\ frameOut[1].atlasModified
    /\ frameOut[1].render_job.kind = "Render"
    /\ HasAtlasUpdate(frameOut[1].render_job.textures_delta)

----------------------------------------------------------------------------
(* C6 *)

QueryHash(q) == LayoutHash(q.job, q.pixels_per_point)
InLayoutCache(q) == QueryHash(q) \in DOMAIN layout_cache.cache

\* the atlas had overflowed or was more than 90% full when the last begin_frame began
OverfullAtBegin ==
    /\ beginSnap # None
    /\ \/ beginSnap[1].overflowed
       \/ 10 * beginSnap[1].used > 9 * MaxTextureSide

\* the glyphs preloaded by Fonts::new are still cached: no clear has happened yet
NeverCleared ==
    DOMAIN FontsNew.glyph_rasterizer.cached_glyphs
        \subseteq DOMAIN glyph_rasterizer.cached_glyphs

\* C6 as stated: a Layout queried in frame N and not in frame N+1 is in the cache
\* throughout frame N+1 and is gone after begin_frame of frame N+2.
C6_GenerationEviction ==
    \A q \in Queries :
        /\ age[q] = 1 => InLayoutCache(q)
        /\ age[q] = 2 => ~InLayoutCache(q)

\* C6, amended: a Layout queried in frame N and not in frame N+1 is in the cache
\* throughout frame N+1 unless begin_frame of frame N+1 found the atlas overflowed
\* or over 90% full (then it cleared the cache); either way the Layout is gone
\* after begin_frame of frame N+2.
C6_GenerationEvictionUnlessCleared ==
    \A q \in Queries :
        /\ (age[q] = 1 /\ ~OverfullAtBegin) => InLayoutCache(q)
        /\ age[q] = 2 => ~InLayoutCache(q)

\* a Layout was just evicted by its generation: no clear has ever happened
C6_Witness ==
    /\ fop = "begin_frame"
    /\ NeverCleared
    /\ \E q \in Queries : age[q] = 2 /\ ~InLayoutCache(q)

----------------------------------------------------------------------------
(* C7 *)

SameInstanceAsBefore ==
    /\ lastCall[1].hit
    /\ lastCall[1].same

\* C7 as stated: a Layout queried in every frame from its first query on is never
\* evicted; every query after the first hits the cache and returns the same Arc.
C7_QueriedEveryFrame ==
    (lastCall # None /\ lastCall[1].streakBefore) => SameInstanceAsBefore

\* C7, amended: a Layout queried in every frame from its first query on hits the
\* cache and returns the same Arc on every query after the first, except on the
\* first query after a begin_frame that cleared the atlas.
C7_QueriedEveryFrameUnlessCleared ==
    (/\ lastCall # None
     /\ lastCall[1].streakBefore
     /\ (lastCall[1].ageBefore = 0 \/ ~OverfullAtBegin))
    => SameInstanceAsBefore

\* a Layout queried in the previous frame is queried again and is a hit
C7_Witness ==
    /\ lastCall # None
    /\ lastCall[1].streakBefore
    /\ lastCall[1].ageBefore = 1
    /\ SameInstanceAsBefore

----------------------------------------------------------------------------
(* C8 *)

\* C8: a second layout call with the same job and pixels_per_point in the same
\* frame returns the Arc of the first call, and leaves the atlas and the glyph
\* cache as they were (nothing is shaped, rasterized or allocated).
C8_SameFrameSameInstance ==
    (lastCall # None /\ lastCall[1].ageBefore = 0)
    => (SameInstanceAsBefore /\ lastCall[1].untouched)

\* a job with visible glyphs is laid out a second time within one frame
C8_Witness ==
    /\ lastCall # None
    /\ lastCall[1].ageBefore = 0
    /\ lastCall[1].hit
    /\ lastCall[1].visible

----------------------------------------------------------------------------
(* C9 *)

RegionSet == {regions[i] : i \in 1..Len(regions)}
LayoutUvs(layout) ==
    UNION {{layout.rows[i].glyphs[j].uv : j \in 1..Len(layout.rows[i].glyphs)} :
              i \in 1..Len(layout.rows)}
CachedGlyphs == glyph_rasterizer.cached_glyphs
StyleIds == glyph_rasterizer.style_ids

\* C9: the atlas, the glyph cache, the style ids and the layout cache are cleared
\* together: every atlas region that a cached glyph or a cached Layout refers to
\* was allocated after the most recent clear (or construction), and every cached
\* glyph key carries a style id handed out after it.
C9_ClearedTogether ==
    /\ \A k \in DOMAIN CachedGlyphs :
        /\ CachedGlyphs[k] # None => CachedGlyphs[k][1].uv \in RegionSet
        /\ \E sk \in DOMAIN StyleIds : StyleIds[sk] = k.style_id
    /\ \A h \in DOMAIN layout_cache.cache :
        LayoutUvs(layout_cache.cache[h].layout) \subseteq RegionSet
    /\ \A sk \in DOMAIN StyleIds : StyleIds[sk] < glyph_rasterizer.next_style_id

\* after a clear, glyphs and a Layout have been cached again
C9_Witness ==
    /\ ~NeverCleared
    /\ \E k \in DOMAIN CachedGlyphs : CachedGlyphs[k] # None
    /\ \E h \in DOMAIN layout_cache.cache :
        LayoutUvs(layout_cache.cache[h].layout) # {}

----------------------------------------------------------------------------
(* C10 *)

\* C10: when the atlas overflowed or was over 90% full at the end of a frame, the
\* next begin_frame leaves the atlas, the glyph cache and the layout cache cleared,
\* the layout queries of the new frame are served from the cleared caches, and no
\* frame starts with an overflowed atlas.
C10_OverflowClearsAtNextFrame ==
    /\ fop = "begin_frame" => ~atlas.overflowed
    /\ (fop = "begin_frame" /\ OverfullAtBegin) =>
        /\ atlas = AtlasCleared(atlas).atlas
        /\ regions = <<AtlasCleared(atlas).region>>
        /\ glyph_rasterizer = GlyphRasterizerNew
        /\ layout_cache.cache = EmptyMap
    /\ (lastCall # None /\ lastCall[1].ageBefore # 0 /\ OverfullAtBegin) =>
        ~lastCall[1].hit

\* a begin_frame that found the atlas overflowed
C10_Witness ==
    /\ fop = "begin_frame"
    /\ beginSnap # None
    /\ beginSnap[1].overflowed
    /\ layout_cache.cache = EmptyMap

----------------------------------------------------------------------------
(* C11 *)

\* a region lies entirely inside the bitmap of atlas a
InsideBitmap(r, a) ==
    /\ 0 <= r.min[1] /\ r.min[1] <= r.max[1] /\ r.max[1] <= a.width
    /\ 0 <= r.min[2] /\ r.min[2] <= r.max[2] /\ r.max[2] <= a.height

\* C11: every call of allocate, also one that overflows the atlas, returns a region
\* of exactly the requested size that lies entirely inside the atlas bitmap as it
\* is after the call.
C11_AllocateInsideBitmap ==
    /\ AreaSum(regions) = reqArea
    /\ InsideBitmap(regions[Len(regions)], atlas)

----------------------------------------------------------------------------
(* C12 *)

\* C12: after every processed primitive, and so in the final result, every mesh of
\* the batch list has at least one vertex and one index; a primitive that adds no
\* geometry leaves the batch list as it was, so a batch it started is removed again.
C12_NoEmptyBatch ==
    [][/\ \A k \in 1..Len(clipped_meshes') :
             /\ clipped_meshes'[k].mesh.vertices # <<>>
             /\ clipped_meshes'[k].mesh.indices # <<>>
       /\ (Len(tessLog') = Len(tessLog) + 1 /\ ~tessLog'[Len(tessLog')].contributed) =>
             clipped_meshes' = clipped_meshes]_vars

\* an all-whitespace text (a layout without rows) that had to start a batch of its
\* own was processed after a primitive that left a batch
C12_Witness ==
    /\ Len(tessLog) >= 2
    /\ clipped_meshes # <<>>
    /\ LET e == tessLog[Len(tessLog)]
       IN  /\ ~e.contributed
           /\ e.prim.primitive.kind = "Text"
           /\ e.prim.primitive.layout.rows = <<>>
           /\ ~RectIsEmpty(e.prim.clip_rect)
           /\ StartNewMesh(clipped_meshes, e.prim.clip_rect, e.prim.primitive)

----------------------------------------------------------------------------
(* C13 *)

\* the primitives processed so far, and those of them with a non-empty clip rect
ProcessedStream == [i \in 1..Len(tessLog) |-> tessLog[i].prim]
WithoutEmptyClips(prims) == SelectSeq(prims, LAMBDA cp : ~RectIsEmpty(cp.clip_rect))

\* C13: a primitive with an empty clip rect leaves the batch list as it was, and
\* the batch list built from a stream equals the one built from the same stream
\* without its empty-clip primitives.
C13_EmptyClipDropped ==
    [][/\ (Len(tessLog') = Len(tessLog) + 1
           /\ tessLog'[Len(tessLog')].prim.clip_rect = ClipEmpty) =>
              clipped_meshes' = clipped_meshes
       /\ LET kept == WithoutEmptyClips([i \in 1..Len(tessLog') |-> tessLog'[i].prim])
          IN  clipped_meshes' = ConvertClippedPrimitives(kept, AtlasSizeVal, <<>>)]_vars

\* a finished conversion in which an empty-clip primitive sat between two
\* primitives that went into one batch
C13_Witness ==
    /\ tessPc = "idle"
    /\ Len(tessLog) = 3
    /\ RectIsEmpty(tessLog[2].prim.clip_rect)
    /\ tessLog[1].contributed /\ tessLog[3].contributed
    /\ tessLog[1].batch = tessLog[3].batch
    /\ Len(clipped_meshes) = 1
    /\ Len(WithoutEmptyClips(ProcessedStream)) = 2

----------------------------------------------------------------------------
(* C14 *)

\* the cached glyphs that hold a bitmap
WithBitmap(gr) == {k \in DOMAIN gr.cached_glyphs : gr.cached_glyphs[k] # None}

\* C14: a glyph lookup resolves to exactly one cached entry for its glyph id, style
\* id, scale and subpixel bin, whatever its integer position; when an entry for
\* these was cached since the last clear, the lookup leaves the atlas and the cache
\* untouched and allocates nothing, returns nothing when the entry is None and
\* else the entry's atlas region; and every cached bitmap has one atlas region.
C14_GlyphCacheHit ==
    /\ Len(regions) = 1 + Cardinality(WithBitmap(glyph_rasterizer))
    /\ (fop = "rasterize_glyph_run" /\ lastCall # None) =>
          LET c == lastCall[1]
          IN  /\ c.entries = 1
              /\ c.repeated => c.known
              /\ c.known =>
                    /\ c.atlas_untouched /\ c.cache_untouched /\ c.allocated = 0
                    /\ (c.out = None) <=> (c.cached = {None})
                    /\ c.out # None =>
                          \E e \in c.cached : e # None /\ c.out[1].uv = e[1].uv

\* the second of two lookups of one glyph, style, scale and bin at different integer
\* positions, served from the cache with a bitmap
C14_Witness ==
    /\ fop = "rasterize_glyph_run" /\ lastCall # None
    /\ lastCall[1].repeated
    /\ lastCall[1].moved
    /\ lastCall[1].known
    /\ lastCall[1].out # None
    /\ lastCall[1].allocated = 0

(* C15 *)

\* the glyphs whose rasterization fails or yields a bitmap without width or height
NoBitmap(glyph_id, font_size) ==
    \/ ~DidRender(glyph_id)
    \/ BitmapSize(glyph_id, font_size)[1] = 0
    \/ BitmapSize(glyph_id, font_size)[2] = 0

C16_SubpixelBinContract ==
    /\ SubpixelBinNewOf(4, 314) = [position |-> 3, bin |-> 1]
    /\ SubpixelBinNewOf(4, 11) = [position |-> 0, bin |-> 0]
    /\ SubpixelBinNewOf(4, -80) = [position |-> -1, bin |-> 1]
    /\ SubpixelBinNewOf(2, 24) = [position |-> 0, bin |-> 0]
    /\ SubpixelBinNewOf(2, 26) = [position |-> 0, bin |-> 1]
    /\ SubpixelBinNewOf(2, 76) = [position |-> 1, bin |-> 0]
    /\ SubpixelBinNewOf(2, -76) = [position |-> -1, bin |-> 0]
    /\ SubpixelBinNewOf(2, -25) = [position |-> 0, bin |-> 0]
    /\ (fop = "subpixel_bin_new" /\ lastCall # None) =>
          LET c == lastCall[1]
              N == c.num_of_bins
              x == c.position100
              p == c.out.position
              b == c.out.bin
              floor_x == CHOOSE f \in (-MaxPosition - PosUnit)..MaxPosition :
                             PosUnit * f <= x /\ x < PosUnit * (f + 1)
              frac == x - PosUnit * floor_x
              centre_diff == N * x - PosUnit * (N * p + b)
          IN  /\ 2 * N * PosUnit * p <= 2 * N * x + PosUnit
              /\ 2 * N * x + PosUnit < 2 * N * PosUnit * (p + 1)
              /\ \E s \in 0..N :
                    /\ 2 * s * PosUnit - PosUnit <= 2 * N * frac
                    /\ 2 * N * frac < 2 * s * PosUnit + PosUnit
                    /\ b = s % N
              /\ b \in 0..(N - 1)
              /\ 2 * centre_diff <= PosUnit /\ -PosUnit <= 2 * centre_diff
              /\ (N = NUM_OF_BINS /\ (x * SubUnit) % PosUnit = 0) =>
                    SubpixelBinNew((x * SubUnit) \div PosUnit) = c.out

\* SubpixelBin::<2>::new(-0.25): the fractional part 0.75 rounds up to bin 2, which
\* wraps to bin 0 of the next integer position
C16_Witness ==
    /\ fop = "subpixel_bin_new"
    /\ lastCall = Some([num_of_bins |-> 2, position100 |-> -25,
                        out |-> [position |-> 0, bin |-> 0]])

(* C17 *)

\* the primitives held by the buckets are those of the push log, bucket by bucket
LayersMatchLog ==
    /\ DOMAIN layers = {added[i].key : i \in 1..Len(added)}
    /\ \A k \in DOMAIN layers : layers[k] = PrimsOfKey(added, k)

\* the geometry of a stored primitive
GeomOf(primitive) ==
    IF primitive.kind = "Rect" THEN primitive.rect
    ELSE IF primitive.kind = "Quad" THEN primitive.quad
    ELSE primitive.pos

\* geometry g moved by vector v, for the three kinds of primitive
Moved(kind, g, v) ==
    IF kind = "Rect" THEN [min |-> Pt(g.min[1] + v[1], g.min[2] + v[2]),
                           max |-> Pt(g.max[1] + v[1], g.max[2] + v[2])]
    ELSE IF kind = "Quad" THEN [i \in 1..4 |-> Pt(g[i][1] + v[1], g[i][2] + v[2])]
    ELSE Pt(g[1] + v[1], g[2] + v[2])

\* C17: every primitive held was stored with the viewport of the moment it was
\* added as its clip rect and with the geometry it was drawn with moved by that
\* viewport's origin, except a text drawn with absolute position, which keeps its
\* position; and set_viewport leaves the primitives already held as they are.
C17_ViewportStamp ==
    [][/\ LayersMatchLog'
       /\ \A i \in 1..Len(added') :
             LET e == added'[i]
             IN  /\ e.prim.clip_rect = e.viewport
                 /\ GeomOf(e.prim.primitive) =
                        IF e.absolute THEN e.geom
                        ELSE Moved(e.prim.primitive.kind, e.geom, e.viewport.min)
       /\ (viewport' # viewport) => (layers' = layers /\ added' = added)]_vars

\* a rect added under the sub-viewport and a text with absolute position added
\* after the viewport was set to the window; both held with their own clip rects
C17_Witness ==
    /\ Len(added) = 2
    /\ added[1].viewport = SubViewport /\ added[1].prim.primitive.kind = "Rect"
    /\ added[1].prim.primitive.rect # added[1].geom
    /\ added[2].viewport = WindowRect /\ added[2].absolute
    /\ viewport = SubViewport
    /\ LayersMatchLog

(* C18 *)

\* C18 as stated: after consume_layers the Layers object is back in its initial
\* state: no buckets, layer key (0, 0), transparent draw color, default viewport.
C18_ConsumeRestoresInitial ==
    lop = "consume_layers" => LayersDefault

\* C18, amended: consume_layers leaves the Layers object without buckets and leaves
\* the current layer key, the draw color and the viewport as they were.
C18_ConsumeClearsBuckets ==
    [][lop' = "consume_layers" =>
          /\ layers' = EmptyLayers
          /\ current_layer' = current_layer
          /\ current_draw_color' = current_draw_color
          /\ viewport' = viewport]_vars

\* after a consume_layers of a frame that drew under a layer key, a draw color and a
\* viewport other than the initial ones
C18_Witness ==
    /\ lop = "consume_layers"
    /\ streamLog # <<>>
    /\ layers = EmptyLayers
    /\ current_layer = <<-1, 1>>
    /\ current_draw_color = WHITE
    /\ viewport = SubViewport
    /\ streamLog[Len(streamLog)].key = current_layer
    /\ streamLog[Len(streamLog)].viewport = viewport

(* C19 *)

\* C19: a primitive that is added goes to the end of the bucket of the current
\* layer key, which this leaves as it is, and no other bucket changes; the key is
\* (0, 0) after reset; set_draw_sublayer keeps the layer of the key; and a call
\* other than reset that changes the key leaves every bucket as it is.
C19_BucketRouting ==
    [][/\ (Len(added') = Len(added) + 1) =>
             LET e == added'[Len(added')]
                 before == IF e.key \in DOMAIN layers THEN layers[e.key] ELSE <<>>
             IN  /\ e.key = current_layer
                 /\ current_layer' = current_layer
                 /\ DOMAIN layers' = DOMAIN layers \cup {e.key}
                 /\ layers'[e.key] = Append(before, e.prim)
                 /\ \A k \in DOMAIN layers \ {e.key} : layers'[k] = layers[k]
       /\ (lop' = "reset") => current_layer' = <<0, 0>>
       /\ (lop' = "set_draw_sublayer") => current_layer'[1] = current_layer[1]
       /\ (current_layer' # current_layer /\ lop' # "reset") =>
             (layers' = layers /\ added' = added)
       /\ LayersMatchLog']_vars

\* set_draw_sublayer(1) called with layer -1 current and a primitive held in bucket
\* (-1, 0)
C19_Witness ==
    /\ lop = "set_draw_sublayer"
    /\ current_layer = <<-1, 1>>
    /\ Len(added) = 1
    /\ added[1].key = <<-1, 0>>
    /\ DOMAIN layers = {<<-1, 0>>}
    /\ layers[<<-1, 0>>] = <<added[1].prim>>

(* C20 *)

\* the primitives processed so far are at least one, share one clip rect, and each is
\* a text with glyphs or a rect or quad without texture
TextAndUntexturedOnly ==
    /\ tessLog # <<>>
    /\ \A i \in 1..Len(tessLog) :
          LET cp == tessLog[i].prim
          IN  /\ cp.clip_rect = tessLog[1].prim.clip_rect
              /\ \/ cp.primitive.kind = "Text" /\ cp.primitive.layout.rows # <<>>
                 \/ cp.primitive.kind \in {"Rect", "Quad"} /\ cp.primitive.texture = None

\* one batch, not empty, with the clip rect of the frame and the texture id of the
\* font atlas
OneAtlasBatch ==
    /\ Len(clipped_meshes) = 1
    /\ clipped_meshes[1].clip_rect = tessLog[1].prim.clip_rect
    /\ clipped_meshes[1].mesh.texture_id = DefaultTextureId
    /\ clipped_meshes[1].mesh.vertices # <<>>
    /\ clipped_meshes[1].mesh.indices # <<>>

\* C20 as stated: a frame of only text with glyphs and untextured rects and quads
\* under one viewport, whatever the viewport, gives exactly one such batch.
C20_OneBatchAnyViewport ==
    TextAndUntexturedOnly => OneAtlasBatch

\* C20, amended: a frame of only text with glyphs and untextured rects and quads
\* under one viewport that is not empty gives exactly one batch, not empty, with
\* that clip rect and the texture id of the font atlas; and a Text primitive
\* processed when the last batch has its clip rect and the atlas texture id starts
\* no new batch.
C20_OneBatchForTextFrame ==
    [][/\ (TextAndUntexturedOnly' /\ ~RectIsEmpty(tessLog'[1].prim.clip_rect)) =>
             OneAtlasBatch'
       /\ (/\ Len(tessLog') = Len(tessLog) + 1
           /\ tessLog'[Len(tessLog')].prim.primitive.kind = "Text"
           /\ clipped_meshes # <<>>
           /\ clipped_meshes[Len(clipped_meshes)].clip_rect =
                  tessLog'[Len(tessLog')].prim.clip_rect
           /\ clipped_meshes[Len(clipped_meshes)].mesh.texture_id = DefaultTextureId) =>
             Len(clipped_meshes') = Len(clipped_meshes)]_vars

\* an untextured rect, a text with one glyph and an untextured quad under one
\* viewport, tessellated into one batch of three quads
C20_Witness ==
    /\ Len(tessLog) = 3
    /\ TextAndUntexturedOnly
    /\ tessLog[1].prim = TexRect(ClipA, None)
    /\ tessLog[2].prim = TextAt(ClipA, SampleLayout)
    /\ tessLog[3].prim = TexQuad(ClipA, None)
    /\ OneAtlasBatch
    /\ Len(clipped_meshes[1].mesh.vertices) = 12

(* C21 *)

\* C21: an allocate call that makes the image higher doubles the height until the
\* rows in use fit, keeps the width, does not mark the atlas overflowed, leaves every
\* region returned before where it was, and leaves every pixel written before as it
\* was.
C21_GrowKeepsContent ==
    [][(atlas'.height > atlas.height) =>
          /\ atlas'.height \in {atlas.height * 2, atlas.height * 4}
          /\ atlas'.height >= atlas'.cursor[2] + atlas'.current_row_height
          /\ atlas'.height \div 2 < atlas'.cursor[2] + atlas'.current_row_height
          /\ atlas'.height <= atlas.max_texture_side
          /\ atlas'.width = atlas.width
          /\ atlas'.overflowed = atlas.overflowed
          /\ SubSeq(regions', 1, Len(regions)) = regions
          /\ \A p \in DOMAIN atlas.pixels : atlas'.pixels[p] = atlas.pixels[p]]_vars

(* C22 *)

\* C22: at any time after new() and after any clear(), the pixel at the origin is
\* white, the first region handed out since is the 1x1 region at the origin, and no
\* region returned by allocate after it, before or after an overflow, contains the
\* origin.
C22_WhitePixelReserved ==
    /\ Pt(0, 0) \in DOMAIN atlas.pixels
    /\ atlas.pixels[Pt(0, 0)] = WHITE
    /\ regions[1] = [min |-> Pt(0, 0), max |-> Pt(1, 1)]
    /\ \A i \in 2..Len(regions) : ~InRegion(Pt(0, 0), regions[i])

\* an atlas that grew and then overflowed, the last region being the one placed at
\* the left edge by the overflow
C22_Witness ==
    /\ atlas.overflowed
    /\ atlas.height > InitialHeight
    /\ Len(regions) >= 3
    /\ regions[Len(regions)].min = Pt(0, atlas.height \div 3)
    /\ atlas.pixels[Pt(0, 0)] = WHITE

(* C23 *)

\* C23: a take_delta call returns the image (of the size the image has) iff
\* allocate or clear ran since the take_delta before it (or since new()), and leaves
\* the image as it is and the dirty flag clear; a take_delta right after a
\* take_delta returns None; a take_delta right after a clear() returns the image,
\* which then holds the white pixel and nothing else.
C23_TakeDelta ==
    [][(fop' = "take_delta" /\ lastCall' # lastCall) =>
          /\ (atlasDelta' # None) <=> ModifiedSinceTake
          /\ (atlasDelta' # None) => atlasDelta'[1].size = AtlasSize(atlas)
          /\ ImageOf(atlas') = ImageOf(atlas)
          /\ ~atlas'.dirty
          /\ (fop = "take_delta") => atlasDelta' = None
          /\ (fop = "clear") =>
                /\ atlasDelta' # None
                /\ atlas.pixels = [p \in {Pt(0, 0)} |-> WHITE]]_vars

\* a take_delta that returned the image after a clear() of an atlas holding a
\* bitmap, and one that returned None
C23_Witness ==
    /\ fop = "take_delta"
    /\ lastCall[1].was
    /\ atlasDelta # None
    /\ Len(regions) = 1
    /\ atlas.height > InitialHeight

(* C24 *)

\* fraction a is at most fraction b (positive denominators)
FracLeq(a, b) == a[1] * b[2] <= b[1] * a[2]

\* C24: capacity() is (cursor.y + current_row_height) / max_texture_side while the
\* atlas is not overflowed and 1 once it is; an atlas that is overflowed stays so
\* until clear(); no call other than clear() lowers capacity(); and the test
\* capacity() > 0.9 of begin_frame holds of every overflowed atlas.
C24_CapacityMonotone ==
    [][/\ (~atlas'.overflowed) =>
             Capacity(atlas') = <<atlas'.cursor[2] + atlas'.current_row_height,
                                  atlas'.max_texture_side>>
       /\ atlas'.overflowed =>
             /\ FracLeq(<<1, 1>>, Capacity(atlas')) /\ FracLeq(Capacity(atlas'), <<1, 1>>)
             /\ CapacityOverThreshold(atlas')
       /\ CapacityOverThreshold(atlas') <=> ~FracLeq(Capacity(atlas'), <<9, 10>>)
       /\ (fop' # "clear") =>
             /\ atlas.overflowed => atlas'.overflowed
             /\ FracLeq(Capacity(atlas), Capacity(atlas'))]_vars

\* an allocate call that overflowed the atlas: the rows in use after it end below
\* nine tenths of the maximum, and capacity() is 1
C24_Witness ==
    /\ fop = "allocate"
    /\ atlas.overflowed
    /\ 10 * (atlas.cursor[2] + atlas.current_row_height) <= 9 * atlas.max_texture_side
    /\ Capacity(atlas) = <<1, 1>>

(* C25 *)

\* the style ids handed out by rasterizer gr
InternedIds(gr) == {gr.style_ids[k] : k \in DOMAIN gr.style_ids}

\* C25: at any time no two style keys have the same id, the ids in use are those
\* below next_style_id, and every cached glyph key carries an id in use; a call
\* other than clear keeps every style key with the id it had; and the style ids
\* start again from 0 only in a clear, which leaves no style and no cached glyph.
C25_StyleIdsStable ==
    [][/\ \A j, k \in DOMAIN glyph_rasterizer'.style_ids :
             glyph_rasterizer'.style_ids[j] = glyph_rasterizer'.style_ids[k] => j = k
       /\ InternedIds(glyph_rasterizer') = 0..(glyph_rasterizer'.next_style_id - 1)
       /\ \A g \in DOMAIN glyph_rasterizer'.cached_glyphs :
             g.style_id \in InternedIds(glyph_rasterizer')
       /\ (fop' # "clear_atlas") =>
             \A k \in DOMAIN glyph_rasterizer.style_ids :
                 /\ k \in DOMAIN glyph_rasterizer'.style_ids
                 /\ glyph_rasterizer'.style_ids[k] = glyph_rasterizer.style_ids[k]
       /\ (glyph_rasterizer'.next_style_id < glyph_rasterizer.next_style_id) =>
             /\ fop' = "clear_atlas"
             /\ glyph_rasterizer'.next_style_id = 0
             /\ glyph_rasterizer'.style_ids = EmptyMap
             /\ glyph_rasterizer'.cached_glyphs = EmptyMap]_vars

\* two styles interned, the larger font size first, and glyphs cached under both
C25_Witness ==
    /\ fop = "rasterize_glyph_run"
    /\ glyph_rasterizer.next_style_id = 2
    /\ \E j, k \in DOMAIN glyph_rasterizer.style_ids :
          /\ j.font_size > k.font_size
          /\ glyph_rasterizer.style_ids[j] = 0
          /\ glyph_rasterizer.style_ids[k] = 1
    /\ {g.style_id : g \in DOMAIN glyph_rasterizer.cached_glyphs} = {0, 1}

----------------------------------------------------------------------------
(* C26 *)

\* C26: whenever a redraw produces a Skip job and the blit texture is copied to the
\* surface and presented, the frame drawn last into the blit texture has the
\* content hash of the skipped frame; and a redraw produces a Skip job only if the
\* redraw before it, whose frame it was found identical to, was carried out on the
\* surface, not dropped for an unconfigured surface or a failed acquire.
C26_ElisionSound ==
    [][RedrawRequestedEnd =>
        /\ (presented'[1].job = "Skip" /\ presented'[1].shown # None) =>
              /\ presented'[1].shown[1] # None
              /\ presented'[1].shown[1][1].hash = presented'[1].hash
        /\ presented'[1].job = "Skip" => presented'[1].basis_shown]_vars

----------------------------------------------------------------------------
(* C27 *)

\* the quads that a primitive of the stream stands for: one for a Rect or a Quad, one
\* per glyph of a Text, row after row and glyph after glyph within a row
RECURSIVE GlyphQuads(_, _)
GlyphQuads(rows, pos) ==
    IF rows = <<>> THEN <<>>
    ELSE [g \in 1..Len(rows[1].glyphs) |->
              [quad |-> QuadOfRect(TranslateRect(rows[1].glyphs[g].rect, pos)),
               color |-> rows[1].glyphs[g].color]]
         \o GlyphQuads(Tail(rows), pos)

QuadsOf(p) ==
    CASE p.kind = "Rect" -> <<[quad |-> QuadOfRect(p.rect), color |-> p.color]>>
      [] p.kind = "Quad" -> <<[quad |-> p.quad, color |-> p.color]>>
      [] p.kind = "Text" -> GlyphQuads(p.layout.rows, p.pos)

\* the corners of these quads, each with the clip rect and the texture it is to be
\* drawn with; nothing for a primitive dropped for its empty clip rect
GeometryOf(cp) ==
    IF RectIsEmpty(cp.clip_rect) THEN <<>>
    ELSE LET quads == QuadsOf(cp.primitive)
         IN  [k \in 1..(4 * Len(quads)) |->
                 [clip_rect |-> cp.clip_rect,
                  texture_id |-> PrimTextureId(cp.primitive),
                  pos |-> quads[((k - 1) \div 4) + 1].quad[((k - 1) % 4) + 1],
                  color |-> quads[((k - 1) \div 4) + 1].color]]

RECURSIVE InputGeometry(_)
InputGeometry(log) ==
    IF log = <<>> THEN <<>> ELSE GeometryOf(Head(log).prim) \o InputGeometry(Tail(log))

\* the vertices of the batches, batch after batch
RECURSIVE EmittedGeometry(_)
EmittedGeometry(meshes) ==
    IF meshes = <<>> THEN <<>>
    ELSE [k \in 1..Len(meshes[1].mesh.vertices) |->
              [clip_rect |-> meshes[1].clip_rect,
               texture_id |-> meshes[1].mesh.texture_id,
               pos |-> meshes[1].mesh.vertices[k].pos,
               color |-> meshes[1].mesh.vertices[k].color]]
         \o EmittedGeometry(Tail(meshes))

\* C27: at every point of a conversion, the vertices of the batches emitted so far,
\* read batch after batch, are the corners of the quads of the primitives converted
\* so far that were not dropped, in the order of the stream (a text's glyphs row
\* after row, glyph after glyph), each under the clip rect and the texture of its
\* primitive; so no primitive joins a batch across primitives between them.
C27_StreamOrderKept == EmittedGeometry(clipped_meshes) = InputGeometry(tessLog)

\* a stream in which a run with one clip rect and texture comes back after a run
\* with another, and which has a text of more than one row
C27_Witness ==
    /\ Len(clipped_meshes) >= 3
    /\ \E i \in 1..Len(clipped_meshes), j \in 1..Len(clipped_meshes) :
          /\ j > i + 1
          /\ clipped_meshes[i].clip_rect = clipped_meshes[j].clip_rect
          /\ clipped_meshes[i].mesh.texture_id = clipped_meshes[j].mesh.texture_id
    /\ \E k \in 1..Len(tessLog) :
          /\ tessLog[k].prim.primitive.kind = "Text"
          /\ tessLog[k].contributed
          /\ Len(tessLog[k].prim.primitive.layout.rows) > 1

----------------------------------------------------------------------------
(* C28 *)

\* the number of Rects, Quads and glyphs of the stream that went into batch b
RECURSIVE QuadsInBatch(_, _)
QuadsInBatch(log, b) ==
    IF log = <<>> THEN 0
    ELSE (IF Head(log).contributed /\ Head(log).batch = b
          THEN Len(QuadsOf(Head(log).prim.primitive)) ELSE 0)
         + QuadsInBatch(Tail(log), b)

\* C28: in every emitted mesh, with k the number of Rects, Quads and glyphs that
\* went into it, there are 4k vertices and 6k indices, the indices of the q-th of
\* them (counting from 0) are 4q, 4q+1, 4q+3, 4q+1, 4q+2, 4q+3, where 4q is the
\* vertex count before it, and every index is smaller than the vertex count.
C28_FourVerticesSixIndices ==
    \A b \in 1..Len(clipped_meshes) :
        LET mesh == clipped_meshes[b].mesh
            k == QuadsInBatch(tessLog, b)
        IN  /\ Len(mesh.vertices) = 4 * k
            /\ Len(mesh.indices) = 6 * k
            /\ \A q \in 0..(k - 1) :
                  /\ mesh.indices[6 * q + 1] = 4 * q
                  /\ mesh.indices[6 * q + 2] = 4 * q + 1
                  /\ mesh.indices[6 * q + 3] = 4 * q + 3
                  /\ mesh.indices[6 * q + 4] = 4 * q + 1
                  /\ mesh.indices[6 * q + 5] = 4 * q + 2
                  /\ mesh.indices[6 * q + 6] = 4 * q + 3
            /\ \A n \in 1..Len(mesh.indices) :
                  mesh.indices[n] >= 0 /\ mesh.indices[n] < Len(mesh.vertices)

\* a mesh that holds a Rect, a Quad and the three glyphs of a text
C28_Witness ==
    \E b \in 1..Len(clipped_meshes) :
        /\ Len(clipped_meshes[b].mesh.vertices) = 20
        /\ \A kind \in {"Rect", "Quad", "Text"} :
              \E n \in 1..Len(tessLog) :
                  /\ tessLog[n].contributed
                  /\ tessLog[n].batch = b
                  /\ tessLog[n].prim.primitive.kind = kind

----------------------------------------------------------------------------
(* C29 *)

\* there is a column or a row of at least PADDING pixels between two regions
PaddedApart(r, q) ==
    \/ r.max[1] + PADDING <= q.min[1]
    \/ q.max[1] + PADDING <= r.min[1]
    \/ r.max[2] + PADDING <= q.min[2]
    \/ q.max[2] + PADDING <= r.min[2]

\* C29: while no allocate call since new() or the last clear() has marked the atlas
\* overflowed, any two of the regions returned since then, the white pixel's among
\* them, share no pixel and have at least one pixel of padding between them, in
\* the same row, in adjacent rows and in any other two rows.
C29_RegionsPaddedApart ==
    ~atlas.overflowed =>
        \A i, j \in 1..Len(regions) :
            i < j => (~Intersect(regions[i], regions[j])
                      /\ PaddedApart(regions[i], regions[j]))

\* the white pixel and a glyph region one pixel to its right, a third region one
\* pixel to the right of that, and a region in the next row, one pixel below the
\* tallest region of the first row
C29_Witness ==
    /\ ~atlas.overflowed
    /\ Len(regions) >= 4
    /\ regions[1] = [min |-> Pt(0, 0), max |-> Pt(1, 1)]
    /\ regions[2].min = Pt(regions[1].max[1] + PADDING, 0)
    /\ regions[3].min = Pt(regions[2].max[1] + PADDING, 0)
    /\ regions[4].min = Pt(0, Max(regions[2].max[2], regions[3].max[2]) + PADDING)
    /\ regions[2].max[2] # regions[3].max[2]

----------------------------------------------------------------------------
(* C30 *)

----------------------------------------------------------------------------
(* C31 *)

\* C31: no step changes the size of the atlas without leaving the atlas dirty, and
\* in every frame that is rendered, the atlas size read after the frame's layout
\* calls and handed to the tessellator is the size of the bitmap that take_delta
\* returned last, in this frame or in an earlier one.
C31_UvSizeIsUploadedSize ==
    [][/\ AtlasSize(atlas') # AtlasSize(atlas) => atlas'.dirty
       /\ (AppFrameEndCall /\ frameOut'[1].render_job.kind = "Render") =>
              /\ frameOut'[1].atlas_size = AtlasSize(atlas')
              /\ frameOut'[1].delta_size = Some(frameOut'[1].atlas_size)]_vars

\* a rendered frame with a text, tessellated against a bitmap that has grown and
\* that was returned by take_delta in an earlier frame, not in this one
C31_Witness ==
    /\ frameOut # None
    /\ frameOut[1].render_job.kind = "Render"
    /\ DrewText(frameOut[1])
    /\ ~HasAtlasUpdate(frameOut[1].taken)
    /\ frameOut[1].atlas_size[2] > InitialHeight

----------------------------------------------------------------------------
(* C35 *)

\* ids that were handed out
HandedOut == 0..(next_id - 1)

\* how often an id is in a sequence
Occurrences(s, id) == Cardinality({i \in 1..Len(s) : s[i] = id})

\* C35: a texture has metadata exactly while handles of it live (the font atlas
\* texture, which has no handle, always), and its retain count then is the number
\* of these handles, one for the original and one per clone, at least 1; an id has
\* been pushed to the free list once if it was handed out and has no metadata, and
\* never otherwise; and no id of the metadata or of the free list is one that is
\* still to be handed out.
C35_RetainCounts ==
    /\ \A id \in DOMAIN meta_data :
          /\ id \in HandedOut
          /\ meta_data[id].retain_count >= 1
          /\ meta_data[id].retain_count = IF id = DefaultTextureId THEN 1 ELSE handles[id]
          /\ Occurrences(freed, id) = 0
    /\ \A id \in HandedOut \ DOMAIN meta_data :
          /\ handles[id] = 0
          /\ Occurrences(freed, id) = 1
    /\ \A i \in 1..Len(freed) : freed[i] \in HandedOut
    /\ \A id \in 0..MaxTextures : id \notin HandedOut => handles[id] = 0

\* the last handle of a texture was dropped and its id pushed to the free list,
\* while another texture lives on with an original handle and a clone
C35_Witness ==
    /\ top.op = "free"
    /\ Occurrences(freed, top.id) = 1
    /\ \E id \in DOMAIN meta_data : meta_data[id].retain_count = 2

----------------------------------------------------------------------------
(* C36 *)

\* the updates of a delta as a set
UpdatesOf(d) == {d.update[i] : i \in 1..Len(d.update)}

\* C36: however the end of a worker job and the drops of the handles interleave,
\* when the job calls set the id is allocated, and every update that a step
\* enqueues is for an id that is allocated then.
C36_SetOnlyAllocated ==
    [][/\ (WorkerJobEnds /\ top'.op = "set") => top'.allocated
       /\ \A u \in UpdatesOf(textures_delta') \ UpdatesOf(textures_delta) :
              u.id \in DOMAIN meta_data']_vars

----------------------------------------------------------------------------
(* C32 *)

\* C32: every textures delta that App::frame takes from the texture manager (the
\* font atlas bitmap and the frees included) is applied by the renderer in the
\* render of that frame, update_textures and free_textures both: none that holds
\* an update or a free is dropped unapplied.
C32_TakenDeltaApplied ==
    [][(appPc = "mode_frame" /\ appPc' = "idle" /\ ~DeltaIsEmpty(frameOut'[1].taken))
           => /\ presented'[1].applied
              /\ gfx_context'[1].textures =
                     FreeTextures(UpdateTextures(gfx_context[1].textures,
                                                 frameOut'[1].taken.update),
                                  frameOut'[1].taken.free)]_vars

----------------------------------------------------------------------------
(* C33 *)

\* the ids that a delta uploads, and those that it frees
UploadedIds(d) == {d.update[i].id : i \in 1..Len(d.update)}
FreedIds(d) == {d.free[i] : i \in 1..Len(d.free)}

\* C33: in a frame that is rendered the uploads of the frame's delta come before
\* the draw calls and its frees after them: every texture of the frame's meshes
\* that the delta uploads or frees is one the renderer has when the draw calls are
\* recorded, and is not destroyed before the commands that draw with it are
\* submitted.
C33_FrameTexturesAvailable ==
    [][(appPc = "mode_frame" /\ appPc' = "idle" /\ presented'[1].applied)
           => \A t \in MeshTextures(frameOut'[1].render_job.meshes) :
                  t \in UploadedIds(frameOut'[1].taken) \cup FreedIds(frameOut'[1].taken)
                      => /\ t \in presented'[1].bound
                         /\ t \notin presented'[1].destroyed]_vars

----------------------------------------------------------------------------
(* C34 *)

\* the primitives pushed since the frame began, in push order
FramePrims == [i \in 1..Len(added) |-> added[i].prim]

\* C34: when a PoB frame starts the Layers hold no primitive, the layer key is
\* (0, 0), the draw color is transparent and the viewport is the rect of the
\* window's size, whatever was drawn or set before and whether or not the frame
\* before was rendered; and the stream that a frame hands on holds the primitives
\* pushed in that frame, each as often as it was pushed, and no other.
C34_FrameStartsReset ==
    [][/\ (appPc = "idle" /\ appPc' = "mode_frame")
              => /\ layers' = EmptyLayers
                 /\ current_layer' = <<0, 0>>
                 /\ current_draw_color' = TRANSPARENT
                 /\ viewport' = FullWindow
       /\ (appPc = "mode_frame" /\ appPc' = "idle")
              => /\ Len(stream') = Len(FramePrims)
                 /\ \A i \in 1..Len(stream') :
                        Occurrences(stream', stream'[i]) = Occurrences(FramePrims, stream'[i])]_vars

\* a frame has begun, after one that set the layer key, the viewport and the
\* color, drew with them and was not rendered
C34_Witness ==
    /\ appPc = "mode_frame"
    /\ added = <<>>
    /\ layers = EmptyLayers
    /\ current_layer = <<0, 0>>
    /\ current_draw_color = TRANSPARENT
    /\ viewport = FullWindow
    /\ frameOut # None
    /\ frameOut[1].settings = <<(<<-1, 1>>), SubViewport, WHITE>>
    /\ frameOut[1].render_job.kind = "Skip"
    /\ previous_layers_hash # GetHash(EmptyLayers)

----------------------------------------------------------------------------
(* C37 *)

ScriptIds == 0..(MaxScripts - 1)

\* the subscript was launched and process has removed it
Removed(id) == id < current_id /\ \A i \in 1..Len(scripts) : scripts[i].id # id

\* C37: of a subscript that process has removed, every call that it sent was
\* executed by the main thread, OnSubCall called for it, and none was left in the
\* channel unprocessed when the subscript was removed.
C37_EveryCallExecuted ==
    \A id \in ScriptIds :
        Removed(id) => /\ tally[id].dropped = 0
                       /\ tally[id].executed = tally[id].sent

----------------------------------------------------------------------------
(* C38 *)

\* the thread of the subscript waits for the reply to a Blocking call
Blocked(id) == \E i \in 1..Len(scripts) : scripts[i].id = id /\ scripts[i].thread = "blocked"

\* C38: with process called again and again, every Blocking call gets one reply and
\* no more, whatever becomes of the OnSubCall handler: the replies sent to a
\* subscript are its Blocking calls, less the one that its thread waits on; a
\* subscript whose thread waits is among the scripts and not among the results of
\* process; and a thread that waits does not wait for ever.
C38_BlockingCallsAnswered ==
    /\ [](\A id \in ScriptIds :
              /\ tally[id].replied = tally[id].blocking - (IF Blocked(id) THEN 1 ELSE 0)
              /\ Blocked(id) => \A k \in 1..Len(results) : results[k] # id)
    /\ \A id \in ScriptIds : Blocked(id) ~> ~Blocked(id)

\* a subscript whose two Blocking calls were both answered though OnSubCall was
\* missing, and which process then reported
C38_Witness ==
    \E id \in ScriptIds :
        /\ tally[id].blocking = 2
        /\ tally[id].replied = 2
        /\ tally[id].executed = 0
        /\ \E k \in 1..Len(results) : results[k] = id

----------------------------------------------------------------------------
(* C39 *)

JobsSubmitted == 1..submitted

\* C39: a job passed to execute is run once at most and by one worker; no worker
\* holds the lock of the job queue while it runs a job; once no worker thread is
\* left, and so once drop has returned, every job that was passed to execute has
\* been run, once, and has ended; and drop returns only when every worker has
\* exited.
C39_JobsRunOnce ==
    /\ \A j \in JobsSubmitted : Len(job_runs[j]) <= 1
    /\ \A w \in WorkerIds : workers[w].state = "job" => queue_lock # w
    /\ (\A w \in WorkerIds : Ended(workers[w])) => \A j \in JobsSubmitted : Len(job_runs[j]) = 1
    /\ pool_pc = "dropped" => /\ \A w \in WorkerIds : workers[w].state = "exited"
                              /\ \A j \in JobsSubmitted : Len(job_runs[j]) = 1

----------------------------------------------------------------------------
(* C40 *)

RECURSIVE Pow2(_)
Pow2(n) == IF n = 0 THEN 1 ELSE 2 * Pow2(n - 1)

\* the server's answer is one that the function tries again after
Retryable(answer) == answer.kind = "transport" \/ answer.status \in {403, 429}

\* C40: a call makes 6 requests at most; the fallback backoff is 2 s at first,
\* doubles with every retry and is capped at 60 s; and after each request: a
\* transport error or a status of 403 or 429 is slept on and tried again, but
\* returns an error if the request was the 6th; any other status of 400 and above
\* returns an error at once, and a status below 400 returns the response at once.
C40_BackoffAndReturns ==
    [][http.pc = "loop" =>
          LET answer == http'.last[1]
              again == http'.pc = "loop" /\ Len(http'.slept) = Len(http.slept) + 1
              back(r) == http'.pc = "returned" /\ http'.result = Some(r)
                         /\ http'.slept = http.slept
          IN  /\ http'.attempt = http.attempt + 1
              /\ http'.attempt <= MAX_ATTEMPTS
              /\ http.backoff_secs =
                     (IF Pow2(Len(http.slept) + 1) < 60 THEN Pow2(Len(http.slept) + 1) ELSE 60)
              /\ Retryable(answer) /\ http'.attempt < MAX_ATTEMPTS => again
              /\ Retryable(answer) /\ http'.attempt = MAX_ATTEMPTS => back("Err")
              /\ ~Retryable(answer) /\ answer.status >= 400 => back("Err")
              /\ ~Retryable(answer) /\ answer.status < 400 => back("Ok")]_vars
====
